---- MODULE Spec2Model ----
(***************************************************************************)
(* Model of the KrakenD schema support of vscode-go-template-support:      *)
(* SchemaParser (schema store), ContextAnalyzer (context resolver) and     *)
(* KrakenDDiagnosticsProvider (validator).                                 *)
(*                                                                         *)
(* Text is modelled by TLA+ strings.  Offsets, lines and columns are       *)
(* 0-based as in JavaScript; the helpers below convert to the 1-based      *)
(* indexing of SubSeq.                                                     *)
(*                                                                         *)
(* A value that the code computes once and reads several times (a const,   *)
(* a regular expression match) is bound as the parameter of a local        *)
(* operator, so that its expression occurs once in the definition.         *)
(***************************************************************************)
EXTENDS Integers, Sequences, FiniteSets, TLC

(***************************************************************************)
(* JavaScript string primitives                                            *)
(***************************************************************************)

\* s.substring(a, b) for 0 <= a, with b clamped to the length
substring(s, a, b) ==
    LET e == IF b > Len(s) THEN Len(s) ELSE b
    IN  IF a >= e THEN "" ELSE SubSeq(s, a + 1, e)

\* s.substring(a)
substringFrom(s, a) == substring(s, a, Len(s))

\* s.charAt(i): the empty string outside the string
charAt(s, i) == IF i >= 0 /\ i < Len(s) THEN SubSeq(s, i + 1, i + 1) ELSE ""

\* does p occur in s at offset i
matchesAt(s, i, p) ==
    /\ i >= 0
    /\ i + Len(p) <= Len(s)
    /\ substring(s, i, i + Len(p)) = p

SetMin(S) == CHOOSE x \in S : \A y \in S : x <= y
SetMax(S) == CHOOSE x \in S : \A y \in S : x >= y

\* s.indexOf(p, from): -1 when p does not occur at or after from
indexOfFrom(s, p, from) ==
    LET hits == {i \in from..(Len(s) - Len(p)) : matchesAt(s, i, p)}
    IN  IF hits = {} THEN -1 ELSE SetMin(hits)

indexOf(s, p) == indexOfFrom(s, p, 0)

\* s.lastIndexOf(p)
lastIndexOf(s, p) ==
    LET hits == {i \in 0..(Len(s) - Len(p)) : matchesAt(s, i, p)}
    IN  IF hits = {} THEN -1 ELSE SetMax(hits)

\* s.includes(p)
includes(s, p) == indexOf(s, p) # -1

\* s.startsWith(p) / s.endsWith(p)
startsWith(s, p) == matchesAt(s, 0, p)
endsWith(s, p) == matchesAt(s, Len(s) - Len(p), p)

\* the characters the regular expression class \s and trim() treat as blank
WhiteSpace == {" ", "\n", "\t", "\r"}
isSpace(c) == c \in WhiteSpace

\* the regular expression class \w
LowerLetters == {"a", "b", "c", "d", "e", "f", "g", "h", "i", "j", "k", "l", "m",
                 "n", "o", "p", "q", "r", "s", "t", "u", "v", "w", "x", "y", "z"}
UpperLetters == {"A", "B", "C", "D", "E", "F", "G", "H", "I", "J", "K", "L", "M",
                 "N", "O", "P", "Q", "R", "S", "T", "U", "V", "W", "X", "Y", "Z"}
Digits == {"0", "1", "2", "3", "4", "5", "6", "7", "8", "9"}
isWordChar(c) == c \in (LowerLetters \cup UpperLetters \cup Digits \cup {"_"})

\* offset of the first character at or after i that does not satisfy the class
RECURSIVE skipSpace(_, _)
skipSpace(s, i) == IF i < Len(s) /\ isSpace(charAt(s, i)) THEN skipSpace(s, i + 1) ELSE i

RECURSIVE skipWord(_, _)
skipWord(s, i) == IF i < Len(s) /\ isWordChar(charAt(s, i)) THEN skipWord(s, i + 1) ELSE i

\* s.trim()
RECURSIVE trimEnd(_)
trimEnd(s) ==
    IF s # "" /\ isSpace(charAt(s, Len(s) - 1)) THEN trimEnd(substring(s, 0, Len(s) - 1)) ELSE s

trim(s) == trimEnd(substringFrom(s, skipSpace(s, 0)))

\* c.toLowerCase() for one character
lowerChar(c) ==
    CASE c = "A" -> "a" [] c = "B" -> "b" [] c = "C" -> "c" [] c = "D" -> "d"
      [] c = "E" -> "e" [] c = "F" -> "f" [] c = "G" -> "g" [] c = "H" -> "h"
      [] c = "I" -> "i" [] c = "J" -> "j" [] c = "K" -> "k" [] c = "L" -> "l"
      [] c = "M" -> "m" [] c = "N" -> "n" [] c = "O" -> "o" [] c = "P" -> "p"
      [] c = "Q" -> "q" [] c = "R" -> "r" [] c = "S" -> "s" [] c = "T" -> "t"
      [] c = "U" -> "u" [] c = "V" -> "v" [] c = "W" -> "w" [] c = "X" -> "x"
      [] c = "Y" -> "y" [] c = "Z" -> "z" [] OTHER -> c

\* s.toLowerCase()
RECURSIVE toLowerCase(_)
toLowerCase(s) == IF s = "" THEN "" ELSE lowerChar(Head(s)) \o toLowerCase(Tail(s))

\* s.split('\n')
RECURSIVE splitLines(_)
splitLines(s) ==
    LET splitAt(i) == IF i = -1 THEN <<s>>
                      ELSE <<substring(s, 0, i)>> \o splitLines(substringFrom(s, i + 1))
    IN  splitAt(indexOf(s, "\n"))

\* s.replace(p, r) with a string pattern: the first occurrence only
replaceFirst(s, p, r) ==
    LET replaceAt(i) ==
            IF i = -1 THEN s ELSE substring(s, 0, i) \o r \o substringFrom(s, i + Len(p))
    IN  replaceAt(indexOf(s, p))

\* s.replace(/p/g, r) for a literal p: every occurrence, left to right
RECURSIVE replaceAll(_, _, _)
replaceAll(s, p, r) ==
    LET replaceAt(i) ==
            IF i = -1 THEN s
            ELSE substring(s, 0, i) \o r \o replaceAll(substringFrom(s, i + Len(p)), p, r)
    IN  replaceAt(indexOf(s, p))

\* xs.includes(x) for an array
arrayIncludes(xs, x) == \E i \in 1..Len(xs) : xs[i] = x

\* optional values: None is undefined, Some(v) a present value
None == <<>>
Some(v) == <<v>>
isSome(o) == Len(o) = 1
valueOf(o) == o[1]


(***************************************************************************)
(* SchemaParser: the schema document                                       *)
(*                                                                         *)
(* A parsed JSON object is a sequence of [key, value] entries in property  *)
(* order (the order Object.entries reports for the non-numeric keys the    *)
(* schemas here use).  A SchemaProperty carries its optional members as    *)
(* optional values.                                                        *)
(***************************************************************************)

\* SchemaProperty.type: a string, or an array of strings
TypeStr(s) == [isArray |-> FALSE, str |-> s, arr |-> <<>>]
TypeArr(a) == [isArray |-> TRUE, str |-> "", arr |-> a]

SchemaProperty(type, description, title, default, enum, items, ref) ==
    [type |-> type, description |-> description, title |-> title,
     default |-> default, enum |-> enum, items |-> items, ref |-> ref]

\* obj[key]: the value of the entry with that key, undefined when there is none
lookup(entries, key) ==
    LET hits == {i \in 1..Len(entries) : entries[i].key = key}
    IN  IF hits = {} THEN None ELSE Some(entries[SetMin(hits)].value)

\* a JavaScript string used as a condition: '' and undefined are falsy
truthyString(o) == isSome(o) /\ valueOf(o) # ""

\* xs.join(sep)
RECURSIVE join(_, _)
join(xs, sep) ==
    IF Len(xs) = 0 THEN ""
    ELSE IF Len(xs) = 1 THEN xs[1]
    ELSE xs[1] \o sep \o join(Tail(xs), sep)

RECURSIVE getTypeString(_)
getTypeString(prop) ==
    IF truthyString(prop.ref) THEN "object"
    ELSE IF isSome(prop.type) /\ valueOf(prop.type).isArray
        THEN join(valueOf(prop.type).arr, " | ")
    ELSE IF isSome(prop.type) /\ valueOf(prop.type).str = "array" /\ isSome(prop.items)
        THEN getTypeString(valueOf(prop.items)) \o "[]"
    ELSE IF isSome(prop.type) /\ valueOf(prop.type).str # ""
        THEN valueOf(prop.type).str
    ELSE "any"

\* one FieldInfo per property, in property order
parseFields(properties, required) ==
    [i \in 1..Len(properties) |->
        LET key == properties[i].key
            prop == properties[i].value
        IN  [name |-> key,
             type |-> getTypeString(prop),
             description |-> IF truthyString(prop.description) THEN valueOf(prop.description)
                             ELSE IF truthyString(prop.title) THEN valueOf(prop.title)
                             ELSE "",
             default |-> prop.default,
             enum |-> prop.enum,
             required |-> arrayIncludes(required, key)]]

\* the escapes decodeURIComponent meets in the references of the schemas below
PercentCodes == <<[code |-> "%3A", char |-> ":"], [code |-> "%3a", char |-> ":"],
                  [code |-> "%2F", char |-> "/"], [code |-> "%2f", char |-> "/"],
                  [code |-> "%7E", char |-> "~"], [code |-> "%20", char |-> " "],
                  [code |-> "%25", char |-> "%"]>>

\* decodeURIComponent(s): undefined stands for the URIError of a malformed escape
RECURSIVE decodeURIComponent(_)
decodeURIComponent(s) ==
    LET decodeAt(i) ==
            IF i = -1 THEN Some(s)
            ELSE LET hits == {k \in 1..Len(PercentCodes) :
                                 matchesAt(s, i, PercentCodes[k].code)}
                     decoded(rest) ==
                         IF ~isSome(rest) THEN None
                         ELSE Some(substring(s, 0, i) \o PercentCodes[SetMin(hits)].char
                                   \o valueOf(rest))
                 IN  IF hits = {} THEN None
                     ELSE decoded(decodeURIComponent(substringFrom(s, i + 3)))
    IN  decodeAt(indexOf(s, "%"))

\* resolveRef that returns the first definition of the schema where no key
\* names one
resolveRefOrFirst(definitions, ref) ==
    LET found(entry, otherwise) == IF isSome(entry) THEN entry ELSE otherwise
        decoded(decodedPath) ==
            IF isSome(decodedPath) THEN lookup(definitions, valueOf(decodedPath)) ELSE None
        first == IF Len(definitions) > 0 THEN Some(definitions[1].value) ELSE None
        resolve(refPath) ==
            found(lookup(definitions, refPath),
                  found(lookup(definitions,
                               replaceAll(replaceAll(refPath, "/", "~1"), ":", "%3A")),
                        found(decoded(decodeURIComponent(
                                  replaceAll(replaceAll(refPath, "~1", "/"), "%3A", ":"))),
                              first)))
    IN  resolve(replaceFirst(ref, "#/definitions/", ""))

\* resolveRef that tries the unescaped and decoded key before the escaped one
resolveRefDecodedFirst(definitions, ref) ==
    LET found(entry, otherwise) == IF isSome(entry) THEN entry ELSE otherwise
        decoded(decodedPath) ==
            IF isSome(decodedPath) THEN lookup(definitions, valueOf(decodedPath)) ELSE None
        resolve(refPath) ==
            found(lookup(definitions, refPath),
                  found(decoded(decodeURIComponent(
                                    replaceAll(replaceAll(refPath, "~1", "/"), "%3A", ":"))),
                        lookup(definitions,
                               replaceAll(replaceAll(refPath, "/", "~1"), ":", "%3A"))))
    IN  resolve(replaceFirst(ref, "#/definitions/", ""))

\* resolveRef on a schema that has a definitions object
resolveRef(definitions, ref) ==
    LET \* definitions[path] when it is there
        found(entry, otherwise) == IF isSome(entry) THEN entry ELSE otherwise
        decoded(decodedPath) ==
            IF isSome(decodedPath) THEN lookup(definitions, valueOf(decodedPath)) ELSE None
        resolve(refPath) ==
            found(lookup(definitions, refPath),
                  found(lookup(definitions,
                               replaceAll(replaceAll(refPath, "/", "~1"), ":", "%3A")),
                        decoded(decodeURIComponent(
                                    replaceAll(replaceAll(refPath, "~1", "/"), "%3A", ":")))))
    IN  resolve(replaceFirst(ref, "#/definitions/", ""))

\* resolveRef(ref) on a schema: null when no schema is loaded, a TypeError when
\* the schema has no definitions member
resolveRefOf(schema, ref) ==
    IF ~isSome(schema) THEN [threw |-> FALSE, value |-> None]
    ELSE IF ~isSome(valueOf(schema).definitions) THEN [threw |-> TRUE, value |-> None]
    ELSE [threw |-> FALSE, value |-> resolveRef(valueOf(valueOf(schema).definitions), ref)]

\* prop?.items?.$ref of an optional property
itemsRef(optProp) ==
    IF isSome(optProp) /\ isSome(valueOf(optProp).items)
    THEN valueOf(valueOf(optProp).items).ref
    ELSE None

EmptyTables == [rootFields |-> <<>>, endpointFields |-> <<>>, backendFields |-> <<>>,
                threw |-> FALSE]

\* parseSchema: the three tables it fills, and whether it ends in an exception
\* (Object.entries of an undefined properties member, or a lookup in an
\* undefined definitions member); the tables filled before the exception stay
parseSchema(schema) ==
    IF ~isSome(schema) THEN EmptyTables
    ELSE IF ~isSome(valueOf(schema).properties) THEN [EmptyTables EXCEPT !.threw = TRUE]
    ELSE
    LET properties == valueOf(valueOf(schema).properties)
        definitions == valueOf(schema).definitions
        \* def.required || []
        requiredOf(def) == IF isSome(def.required) THEN valueOf(def.required) ELSE <<>>
        \* lines 94-96
        backendParsed(withEndpoint, backendDef) ==
            IF ~(isSome(backendDef) /\ isSome(valueOf(backendDef).properties))
            THEN withEndpoint
            ELSE [withEndpoint EXCEPT !.backendFields =
                    parseFields(valueOf(valueOf(backendDef).properties),
                                requiredOf(valueOf(backendDef)))]
        \* lines 90-92
        backendResolved(withEndpoint, backendRef) ==
            IF ~truthyString(backendRef) THEN withEndpoint
            ELSE backendParsed(withEndpoint,
                               resolveRef(valueOf(definitions), valueOf(backendRef)))
        \* lines 82-88
        endpointParsed(withRoot, endpointDef) ==
            IF ~(isSome(endpointDef) /\ isSome(valueOf(endpointDef).properties)) THEN withRoot
            ELSE backendResolved(
                    [withRoot EXCEPT !.endpointFields =
                        parseFields(valueOf(valueOf(endpointDef).properties),
                                    requiredOf(valueOf(endpointDef)))],
                    itemsRef(lookup(valueOf(valueOf(endpointDef).properties), "backend")))
        \* lines 78-80
        endpointResolved(withRoot, endpointRef) ==
            IF ~truthyString(endpointRef) THEN withRoot
            ELSE IF ~isSome(definitions) THEN [withRoot EXCEPT !.threw = TRUE]
            ELSE endpointParsed(withRoot,
                                resolveRef(valueOf(definitions), valueOf(endpointRef)))
    IN  \* lines 71-75
        endpointResolved([EmptyTables EXCEPT !.rootFields = parseFields(properties, <<>>)],
                         itemsRef(lookup(properties, "endpoints")))

\* a schema file: unreadable, or text that JSON.parse rejects (json undefined),
\* or the parsed value: null, or an object with optional properties/definitions
UnreadableFile == [readable |-> FALSE, valid |-> FALSE, json |-> None]
InvalidJsonFile == [readable |-> TRUE, valid |-> FALSE, json |-> None]
NullJsonFile == [readable |-> TRUE, valid |-> TRUE, json |-> None]
JsonFile(properties, definitions) ==
    [readable |-> TRUE, valid |-> TRUE,
     json |-> Some([properties |-> properties, definitions |-> definitions])]

\* loadSchema with its try/catch removed: the exception of readFileSync,
\* JSON.parse or parseSchema leaves the constructor
loadSchemaUncaught(file) ==
    IF ~file.readable \/ ~file.valid THEN [EmptyTables EXCEPT !.threw = TRUE]
    ELSE parseSchema(file.json)

\* loadSchema: every exception is caught and logged
loadSchema(file) ==
    IF ~file.readable \/ ~file.valid THEN EmptyTables
    ELSE [parseSchema(file.json) EXCEPT !.threw = FALSE]


(***************************************************************************)
(* The schema files the store is constructed from                          *)
(***************************************************************************)

Entry(k, v) == [key |-> k, value |-> v]

StringProp(description) ==
    SchemaProperty(Some(TypeStr("string")), Some(description), None, None, None, None, None)

EnumProp(title, default, values) ==
    SchemaProperty(Some(TypeStr("string")), None, Some(title), Some(default), Some(values),
                   None, None)

RefArrayProp(ref) ==
    SchemaProperty(Some(TypeStr("array")), None, None, None, None,
                   Some(SchemaProperty(None, None, None, None, None, None, Some(ref))), None)

StringArrayProp ==
    SchemaProperty(Some(TypeStr("array")), None, None, None, None,
                   Some(SchemaProperty(Some(TypeStr("string")), None, None, None, None,
                                       None, None)), None)

Definition(properties, required) == [properties |-> properties, required |-> required]

MethodEnum == <<"GET", "POST", "PUT">>
EncodingEnum == <<"json", "no-op">>

BackendDefinition ==
    Definition(Some(<<Entry("url_pattern", StringProp("Backend path")),
                      Entry("method", EnumProp("Method", "GET", MethodEnum)),
                      Entry("encoding", EnumProp("Encoding", "json", EncodingEnum)),
                      Entry("host", StringArrayProp)>>),
               Some(<<"url_pattern">>))

EndpointDefinition(backendRef) ==
    Definition(Some(<<Entry("endpoint", StringProp("Endpoint path")),
                      Entry("method", EnumProp("Method", "GET", MethodEnum)),
                      Entry("url", StringProp("Public URL")),
                      Entry("backend", RefArrayProp(backendRef))>>),
               Some(<<"endpoint", "backend", "url">>))

\* an endpoint definition that has a property named like the alias of url
CollidingEndpointDefinition ==
    Definition(Some(<<Entry("url", StringProp("Public URL")),
                      Entry("endpoint_url", EnumProp("Kind", "a", <<"a", "b">>)),
                      Entry("method", EnumProp("Method", "GET", MethodEnum))>>),
               Some(<<"url">>))

RootProperties(endpointRef) ==
    <<Entry("version", SchemaProperty(Some(TypeArr(<<"integer", "string">>)), None, None,
                                      None, None, None, None)),
      Entry("url", StringProp("Service URL")),
      Entry("endpoints", RefArrayProp(endpointRef))>>

\* references resolved by their literal key
PlainSchemaFile ==
    JsonFile(Some(RootProperties("#/definitions/endpoint.json")),
             Some(<<Entry("endpoint.json", EndpointDefinition("#/definitions/backend.json")),
                    Entry("backend.json", BackendDefinition)>>))

\* definitions keyed by an escaped URI: the endpoint reference is unescaped
\* and the backend reference names its key literally
EncodedSchemaFile ==
    JsonFile(Some(RootProperties("#/definitions/k:/endpoint.json")),
             Some(<<Entry("k%3A~1endpoint.json",
                          EndpointDefinition("#/definitions/k%3A~1backend.json")),
                    Entry("k%3A~1backend.json", BackendDefinition)>>))

\* definitions keyed by the plain URI, references escaped
DecodedSchemaFile ==
    JsonFile(Some(RootProperties("#/definitions/k%3A~1endpoint.json")),
             Some(<<Entry("k:/endpoint.json", EndpointDefinition("#/definitions/k%2Fb%ZZ")),
                    Entry("k/b", BackendDefinition)>>))

CollidingSchemaFile ==
    JsonFile(Some(RootProperties("#/definitions/endpoint.json")),
             Some(<<Entry("endpoint.json", CollidingEndpointDefinition)>>))

\* the endpoint reference names no definition
UnresolvedSchemaFile ==
    JsonFile(Some(RootProperties("#/definitions/missing.json")),
             Some(<<Entry("backend.json", BackendDefinition)>>))

\* the backend reference of the endpoint definition names no definition
UnresolvedBackendSchemaFile ==
    JsonFile(Some(RootProperties("#/definitions/endpoint.json")),
             Some(<<Entry("endpoint.json", EndpointDefinition("#/definitions/missing.json")),
                    Entry("other.json", BackendDefinition)>>))

\* a definition that is told from the others by the name of its one property
Marked(tag) == Definition(Some(<<Entry(tag, StringProp(tag))>>), None)

\* definitions under keys that several references reach by different keys
PrecedenceSchemaFile ==
    JsonFile(Some(RootProperties("#/definitions/p:q~1r")),
             Some(<<Entry("a/b", Marked("literal")),
                    Entry("a~1b", Marked("escaped")),
                    Entry("p:q/r", Marked("decoded")),
                    Entry("p%3Aq~1r", Marked("encoded")),
                    Entry("bad%ZZ", Marked("malformed"))>>))

\* definitions and root properties whose names are near one another
NearEndpointDefinition ==
    Definition(Some(<<Entry("url", StringProp("URL")),
                      Entry("uri", StringProp("URI")),
                      Entry("urn", StringProp("URN")),
                      Entry("backend", RefArrayProp("#/definitions/backend.json"))>>),
               Some(<<"uri">>))

NearBackendDefinition ==
    Definition(Some(<<Entry("hosts", StringArrayProp),
                      Entry("host", StringProp("Host")),
                      Entry("method", EnumProp("Method", "GET", MethodEnum))>>),
               None)

\* a backend definition with the property url, which the alias table maps to
\* endpoint_url, and a property named like the alias of encoding without encoding
CrossBackendDefinition ==
    Definition(Some(<<Entry("url", StringProp("Target")),
                      Entry("backend_encoding", StringProp("Raw encoding")),
                      Entry("host", StringArrayProp)>>),
               None)

CrossSchemaFile ==
    JsonFile(Some(RootProperties("#/definitions/endpoint.json")),
             Some(<<Entry("endpoint.json", EndpointDefinition("#/definitions/backend.json")),
                    Entry("backend.json", CrossBackendDefinition)>>))

SuggestSchemaFile ==
    JsonFile(Some(<<Entry("port", StringProp("Port")),
                    Entry("host", StringProp("Host")),
                    Entry("post", StringProp("Post")),
                    Entry("sort", StringProp("Sort")),
                    Entry("part", StringProp("Part")),
                    Entry("endpoints", RefArrayProp("#/definitions/endpoint.json"))>>),
             Some(<<Entry("endpoint.json", NearEndpointDefinition),
                    Entry("backend.json", NearBackendDefinition)>>))

\* the same names in another property order
ReorderedSuggestSchemaFile ==
    JsonFile(Some(<<Entry("part", StringProp("Part")),
                    Entry("sort", StringProp("Sort")),
                    Entry("endpoints", RefArrayProp("#/definitions/endpoint.json")),
                    Entry("post", StringProp("Post")),
                    Entry("port", StringProp("Port"))>>),
             Some(<<Entry("endpoint.json", NearEndpointDefinition),
                    Entry("backend.json", NearBackendDefinition)>>))

\* no definitions member at all
NoDefinitionsSchemaFile == JsonFile(Some(RootProperties("#/definitions/endpoint.json")), None)

\* the JSON text {}
EmptyObjectSchemaFile == JsonFile(None, None)

SchemaFiles == {UnreadableFile, InvalidJsonFile, NullJsonFile, EmptyObjectSchemaFile,
                NoDefinitionsSchemaFile, UnresolvedSchemaFile, PlainSchemaFile,
                EncodedSchemaFile, DecodedSchemaFile, CollidingSchemaFile}

\* SchemaParser.fieldMappings, in insertion order
FieldMappingEntries ==
    <<Entry("output_encoding", "endpoint_output_encoding"),
      Entry("url", "endpoint_url"),
      Entry("input_headers", "endpoint_input_headers"),
      Entry("input_query_strings", "endpoint_input_query_strings"),
      Entry("extra_config", "endpoint_extra_config"),
      Entry("encoding", "backend_encoding"),
      Entry("method", "backend_method"),
      Entry("url_pattern", "backend_url_pattern"),
      Entry("settings", "backend_settings")>>

\* CtxType; the store reads its root table for every type but endpoint and backend
CtxTypes == {"endpoint", "backend", "unknown"}

(***************************************************************************)
(* State                                                                   *)
(***************************************************************************)
VARIABLES
    schemaFile,            \* the content of the file at schemaPath when the store was built
    constructorThrew,      \* an exception left new SchemaParser(schemaPath)
    rootFields,            \* SchemaParser.rootFields, in insertion order
    endpointFields,        \* SchemaParser.endpointFields
    backendFields,         \* SchemaParser.backendFields
    fieldMappings,         \* SchemaParser.fieldMappings
    documents,             \* the text documents of the workspace, by URI
    diagnosticCollection,  \* KrakenDDiagnosticsProvider.diagnosticCollection, by URI
    lastCall               \* the last operation that ran, with its arguments and result

vars == <<schemaFile, constructorThrew, rootFields, endpointFields, backendFields,
          fieldMappings, documents, diagnosticCollection, lastCall>>

storeVars == <<schemaFile, constructorThrew, rootFields, endpointFields, backendFields,
               fieldMappings>>

(***************************************************************************)
(* SchemaParser: queries                                                   *)
(***************************************************************************)

\* map.get(name) on a field table
mapGet(fields, name) ==
    LET hits == {i \in 1..Len(fields) : fields[i].name = name}
    IN  IF hits = {} THEN None ELSE Some(fields[SetMin(hits)])

\* an alias copy that is built afresh instead of spread from the field
aliasCopyFresh(field, prefixed, original) ==
    [name |-> prefixed, type |-> field.type,
     description |-> field.description \o " (Custom field: maps to " \o original \o ")",
     default |-> field.default, enum |-> None, required |-> FALSE]

\* { ...field, name: prefixed, description: `... (Custom field: maps to ...)` }
aliasCopy(field, prefixed, original) ==
    [field EXCEPT !.name = prefixed,
                  !.description = field.description \o " (Custom field: maps to "
                                  \o original \o ")"]

\* the fields of a table, each mapped field followed at once by its alias copy
RECURSIVE withAliasesInterleaved(_)
withAliasesInterleaved(fields) ==
    IF Len(fields) = 0 THEN <<>>
    ELSE LET own(f, mapping) ==
                 IF truthyString(mapping) THEN <<f, aliasCopy(f, valueOf(mapping), f.name)>>
                 ELSE <<f>>
         IN  own(Head(fields), lookup(fieldMappings, Head(fields).name))
             \o withAliasesInterleaved(Tail(fields))

\* the fields of a table followed by the alias copies of its mapped fields
withAliases(fields) ==
    LET mapped == SelectSeq(fields, LAMBDA f : truthyString(lookup(fieldMappings, f.name)))
    IN  fields \o [i \in 1..Len(mapped) |->
                     aliasCopy(mapped[i], valueOf(lookup(fieldMappings, mapped[i].name)),
                               mapped[i].name)]

getEndpointFields == withAliases(endpointFields)
getBackendFields == withAliases(backendFields)
getRootFields == rootFields

\* the getFields(shape) of the specification
getFields(context) ==
    IF context = "endpoint" THEN getEndpointFields
    ELSE IF context = "backend" THEN getBackendFields
    ELSE getRootFields

tableOf(context) ==
    IF context = "endpoint" THEN endpointFields
    ELSE IF context = "backend" THEN backendFields
    ELSE rootFields

\* getFieldInfo without the search of the alias table
getFieldInfoCanonicalOnly(context, fieldName) == mapGet(tableOf(context), fieldName)

\* getFieldInfo that accepts an alias only in the shape its prefix names
getFieldInfoOfOwnShape(context, fieldName) ==
    LET map == tableOf(context)
        hits == {k \in 1..Len(fieldMappings) :
                    /\ fieldMappings[k].value = fieldName
                    /\ startsWith(fieldName, context \o "_")
                    /\ isSome(mapGet(map, fieldMappings[k].key))}
        copy(k) == Some(aliasCopy(valueOf(mapGet(map, fieldMappings[k].key)),
                                  fieldMappings[k].value, fieldMappings[k].key))
    IN  IF isSome(mapGet(map, fieldName)) THEN mapGet(map, fieldName)
        ELSE IF hits = {} THEN None
        ELSE copy(SetMin(hits))

getFieldInfo(context, fieldName) ==
    LET map == tableOf(context)
        hits == {k \in 1..Len(fieldMappings) :
                    /\ fieldMappings[k].value = fieldName
                    /\ isSome(mapGet(map, fieldMappings[k].key))}
    IN  IF isSome(mapGet(map, fieldName)) THEN mapGet(map, fieldName)
        ELSE IF hits = {} THEN None
        ELSE LET k == SetMin(hits)
             IN  Some(aliasCopy(valueOf(mapGet(map, fieldMappings[k].key)),
                                fieldMappings[k].value, fieldMappings[k].key))

isValidField(context, fieldName) == isSome(getFieldInfo(context, fieldName))

\* field?.enum
getEnumValues(context, fieldName) ==
    LET enumOf(field) == IF isSome(field) THEN valueOf(field).enum ELSE None
    IN  enumOf(getFieldInfo(context, fieldName))


(***************************************************************************)
(* vscode.TextDocument                                                     *)
(***************************************************************************)

Position(line, character) == [line |-> line, character |-> character]
Range(start, end) == [start |-> start, end |-> end]

\* document.lineAt(line).text
lineAt(text, line) == splitLines(text)[line + 1]

lineCount(text) == Len(splitLines(text))

\* document.offsetAt(position)
RECURSIVE offsetOfLine(_, _)
offsetOfLine(text, line) ==
    LET after(i) == i + 1 + offsetOfLine(substringFrom(text, i + 1), line - 1)
    IN  IF line = 0 THEN 0 ELSE after(indexOf(text, "\n"))

offsetAt(text, position) == offsetOfLine(text, position.line) + position.character

\* document.positionAt(offset)
positionAt(text, offset) ==
    LET after(breaks) == Position(Cardinality(breaks),
                                  IF breaks = {} THEN offset ELSE offset - (SetMax(breaks) + 1))
    IN  after({i \in 0..(offset - 1) : charAt(text, i) = "\n"})

\* document.getText(range)
getText(text, range) == substring(text, offsetAt(text, range.start), offsetAt(text, range.end))

(***************************************************************************)
(* ContextAnalyzer                                                         *)
(***************************************************************************)

NoMatch == [ok |-> FALSE]

\* offset of the first character at or after i that is the character c, or the end
RECURSIVE skipUntil(_, _, _)
skipUntil(s, i, c) == IF i < Len(s) /\ charAt(s, i) # c THEN skipUntil(s, i + 1, c) ELSE i

\* the identifiers of (?:\.\w+)* read at offset i
RECURSIVE dottedPath(_, _)
dottedPath(s, i) ==
    IF charAt(s, i) = "." /\ isWordChar(charAt(s, i + 1))
    THEN <<substring(s, i + 1, skipWord(s, i + 1))>> \o dottedPath(s, skipWord(s, i + 1))
    ELSE <<>>

\* the match of the variable pattern that lies furthest right
matchVariableLast(expression) ==
    LET hits == {i \in 0..(Len(expression) - 2) :
                    charAt(expression, i) = "$" /\ isWordChar(charAt(expression, i + 1))}
        matched(i, nameEnd) ==
            [ok |-> TRUE,
             variableName |-> substring(expression, i + 1, nameEnd),
             fieldPath |-> dottedPath(expression, nameEnd)]
    IN  IF hits = {} THEN NoMatch
        ELSE matched(SetMax(hits), skipWord(expression, SetMax(hits) + 1))

\* expression.match(/\$(\w+)((?:\.\w+)*)/): the leftmost match
matchVariable(expression) ==
    LET hits == {i \in 0..(Len(expression) - 2) :
                    charAt(expression, i) = "$" /\ isWordChar(charAt(expression, i + 1))}
        matched(i, nameEnd) ==
            [ok |-> TRUE,
             variableName |-> substring(expression, i + 1, nameEnd),
             fieldPath |-> dottedPath(expression, nameEnd)]
    IN  IF hits = {} THEN NoMatch
        ELSE matched(SetMin(hits), skipWord(expression, SetMin(hits) + 1))

\* /\{\{\s*range\s+(?:\$\w+,\s*)?\$(\w+)\s*:=\s*([^\}]+)\}\}/ tried at offset i
matchRangeAt(s, i) ==
    LET \* ([^\}]+)\}\} after the blanks that follow := ; [^\}]+ needs one
        \* character: a blank given back by \s*
        expression(bound, nameEnd, assign, blankEnd, exprEnd) ==
            LET exprStart == IF exprEnd > blankEnd THEN blankEnd ELSE blankEnd - 1
            IN  IF exprStart < assign + 2 \/ ~matchesAt(s, exprEnd, "}}") THEN NoMatch
                ELSE [ok |-> TRUE,
                      index |-> i,
                      end |-> exprEnd + 2,
                      variableName |-> substring(s, bound + 1, nameEnd),
                      rangeExpression |-> substring(s, exprStart, exprEnd)]
        afterAssign(bound, nameEnd, assign, blankEnd) ==
            expression(bound, nameEnd, assign, blankEnd, skipUntil(s, blankEnd, "}"))
        \* \s*:=\s* after the bound variable
        assignment(bound, nameEnd, assign) ==
            IF ~matchesAt(s, assign, ":=") THEN NoMatch
            ELSE afterAssign(bound, nameEnd, assign, skipSpace(s, assign + 2))
        afterName(bound, nameEnd) == assignment(bound, nameEnd, skipSpace(s, nameEnd))
        \* \$(\w+) at the offset of the bound variable
        variable(bound) ==
            IF ~(charAt(s, bound) = "$" /\ isWordChar(charAt(s, bound + 1))) THEN NoMatch
            ELSE afterName(bound, skipWord(s, bound + 1))
        \* (?:\$\w+,\s*)? at the offset of the first variable
        index(first, firstEnd) ==
            IF /\ charAt(s, first) = "$"
               /\ isWordChar(charAt(s, first + 1))
               /\ charAt(s, firstEnd) = ","
            THEN variable(skipSpace(s, firstEnd + 1))
            ELSE variable(first)
        afterKeyword(first) == index(first, skipWord(s, first + 1))
        \* range\s+ at the offset of the keyword
        keyword(kw) ==
            IF ~(matchesAt(s, kw, "range") /\ isSpace(charAt(s, kw + 5))) THEN NoMatch
            ELSE afterKeyword(skipSpace(s, kw + 5))
    IN  IF ~matchesAt(s, i, "{{") THEN NoMatch ELSE keyword(skipSpace(s, i + 2))

\* the last element of Array.from(s.matchAll(...)): the matches are taken left
\* to right and do not overlap
RECURSIVE lastRangeMatch(_, _, _)
lastRangeMatch(s, from, last) ==
    LET next(i, match) ==
            IF i = -1 THEN last
            ELSE IF match.ok THEN lastRangeMatch(s, match.end, match)
            ELSE lastRangeMatch(s, i + 1, last)
        tryAt(i) == next(i, matchRangeAt(s, i))
    IN  tryAt(indexOfFrom(s, "{{", from))

\* classifyRange that looks at the name of the bound variable before the
\* range expression
classifyRangeNameFirst(lastRange) ==
    LET byExpression ==
            IF includes(lastRange.rangeExpression, "endpoints") THEN "endpoint"
            ELSE IF includes(lastRange.rangeExpression, "backends") THEN "backend"
            ELSE "unknown"
        byVariableName(lowered) ==
            IF includes(lowered, "endpoint") THEN "endpoint"
            ELSE IF includes(lowered, "backend") THEN "backend"
            ELSE byExpression
    IN  byVariableName(toLowerCase(lastRange.variableName))

\* the classification of one range binding
classifyRange(lastRange) ==
    LET byVariableName(lowered) ==
            IF includes(lowered, "endpoint") THEN "endpoint"
            ELSE IF includes(lowered, "backend") THEN "backend"
            ELSE "unknown"
    IN  IF includes(lastRange.rangeExpression, "endpoints")
           \/ includes(lastRange.rangeExpression, ".endpoints") THEN "endpoint"
        ELSE IF includes(lastRange.rangeExpression, "backends")
                \/ includes(lastRange.rangeExpression, ".backends")
                \/ includes(lastRange.rangeExpression, "frontend_backends") THEN "backend"
        ELSE byVariableName(toLowerCase(lastRange.variableName))

\* the number of lines above the position that the backward scan reads
ScanWindowLines == 50

\* inferContextFromSurrounding that reads the document from its first line
inferContextFromWholeText(text, position) ==
    LET classified(lastRange) == IF lastRange.ok THEN classifyRange(lastRange) ELSE "unknown"
    IN  classified(lastRangeMatch(getText(text, Range(Position(0, 0), position)), 0, NoMatch))

\* inferContextFromSurrounding that drops a binding followed by an {{ end }}
inferContextFromOpenRange(text, position) ==
    LET firstLine == IF position.line - ScanWindowLines > 0
                     THEN position.line - ScanWindowLines ELSE 0
        textBefore == getText(text, Range(Position(firstLine, 0), position))
        classified(lastRange) ==
            IF ~lastRange.ok THEN "unknown"
            ELSE IF includes(substringFrom(textBefore, lastRange.end), "{{ end }}")
            THEN "unknown"
            ELSE classifyRange(lastRange)
    IN  classified(lastRangeMatch(textBefore, 0, NoMatch))

inferContextFromSurrounding(text, position) ==
    LET firstLine == IF position.line - ScanWindowLines > 0
                     THEN position.line - ScanWindowLines ELSE 0
        textBefore == getText(text, Range(Position(firstLine, 0), position))
        classified(lastRange) == IF lastRange.ok THEN classifyRange(lastRange) ELSE "unknown"
    IN  classified(lastRangeMatch(textBefore, 0, NoMatch))

\* the type that the name of the accessed variable suggests
typeOfVariableName(variableName) ==
    LET byName(lowered) ==
            IF variableName = "endpoint" \/ includes(lowered, "endpoint") THEN "endpoint"
            ELSE IF variableName = "backend" \/ includes(lowered, "backend") THEN "backend"
            ELSE "unknown"
    IN  byName(toLowerCase(variableName))

UnknownContext == [type |-> "unknown", variableName |-> None, fieldPath |-> None]

\* analyzeContext that asks the name of the accessed variable first
analyzeContextNameFirst(text, position) ==
    LET typed(byName, varMatch) ==
            [type |-> IF byName # "unknown" THEN byName
                      ELSE inferContextFromSurrounding(text, position),
             variableName |-> Some(varMatch.variableName),
             fieldPath |-> Some(varMatch.fieldPath)]
        matched(varMatch) ==
            IF ~varMatch.ok THEN UnknownContext
            ELSE typed(typeOfVariableName(varMatch.variableName), varMatch)
        delimited(textBeforeCursor, lastOpen, lastClose) ==
            IF lastOpen = -1 \/ lastClose > lastOpen THEN UnknownContext
            ELSE matched(matchVariable(trim(substringFrom(textBeforeCursor, lastOpen + 2))))
        cut(textBeforeCursor) ==
            delimited(textBeforeCursor, lastIndexOf(textBeforeCursor, "{{"),
                      lastIndexOf(textBeforeCursor, "}}"))
    IN  cut(substring(lineAt(text, position.line), 0, position.character))

\* analyzeContext that does not look for }} after the last {{
analyzeContextUnclosed(text, position) ==
    LET typed(inferred, varMatch) ==
            [type |-> IF inferred # "unknown" THEN inferred
                      ELSE typeOfVariableName(varMatch.variableName),
             variableName |-> Some(varMatch.variableName),
             fieldPath |-> Some(varMatch.fieldPath)]
        matched(varMatch) ==
            IF ~varMatch.ok THEN UnknownContext
            ELSE typed(inferContextFromSurrounding(text, position), varMatch)
        delimited(textBeforeCursor, lastOpen) ==
            IF lastOpen = -1 THEN UnknownContext
            ELSE matched(matchVariable(trim(substringFrom(textBeforeCursor, lastOpen + 2))))
        cut(textBeforeCursor) ==
            delimited(textBeforeCursor, lastIndexOf(textBeforeCursor, "{{"))
    IN  cut(substring(lineAt(text, position.line), 0, position.character))

analyzeContext(text, position) ==
    LET \* lines 39-57: the surrounding binding first, then the variable name
        typed(inferred, varMatch) ==
            [type |-> IF inferred # "unknown" THEN inferred
                      ELSE typeOfVariableName(varMatch.variableName),
             variableName |-> Some(varMatch.variableName),
             fieldPath |-> Some(varMatch.fieldPath)]
        \* lines 33-34 and 60
        matched(varMatch) ==
            IF ~varMatch.ok THEN UnknownContext
            ELSE typed(inferContextFromSurrounding(text, position), varMatch)
        \* lines 25-30
        delimited(textBeforeCursor, lastOpen, lastClose) ==
            IF lastOpen = -1 \/ lastClose > lastOpen THEN UnknownContext
            ELSE matched(matchVariable(trim(substringFrom(textBeforeCursor, lastOpen + 2))))
        \* lines 22-23
        cut(textBeforeCursor) ==
            delimited(textBeforeCursor, lastIndexOf(textBeforeCursor, "{{"),
                      lastIndexOf(textBeforeCursor, "}}"))
    IN  \* lines 17-19
        cut(substring(lineAt(text, position.line), 0, position.character))


(***************************************************************************)
(* KrakenDDiagnosticsProvider                                              *)
(***************************************************************************)

Diagnostic(range, message, severity, source, code) ==
    [range |-> range, message |-> message, severity |-> severity, source |-> source,
     code |-> code]

minOf3(a, b, c) == IF a <= b /\ a <= c THEN a ELSE IF b <= c THEN b ELSE c

\* row i of the matrix of levenshteinDistance, built left to right from row i - 1
RECURSIVE levenshteinRow(_, _, _, _, _)
levenshteinRow(str1, str2, i, prev, row) ==
    LET j == Len(row)
    IN  IF j > Len(str1) THEN row
        ELSE levenshteinRow(str1, str2, i, prev,
                Append(row,
                    IF charAt(str2, i - 1) = charAt(str1, j - 1) THEN prev[j]
                    ELSE minOf3(prev[j] + 1, row[j] + 1, prev[j + 1] + 1)))

\* rows 0..i of the matrix; element j + 1 of a row is matrix[i][j]
RECURSIVE levenshteinMatrixRow(_, _, _)
levenshteinMatrixRow(str1, str2, i) ==
    IF i = 0 THEN [j \in 1..(Len(str1) + 1) |-> j - 1]
    ELSE levenshteinRow(str1, str2, i, levenshteinMatrixRow(str1, str2, i - 1), <<i>>)

levenshteinDistance(str1, str2) == levenshteinMatrixRow(str1, str2, Len(str2))[Len(str1) + 1]

\* items.sort((a, b) => a.distance - b.distance): stable insertion by distance
RECURSIVE insertByDistance(_, _)
insertByDistance(sorted, item) ==
    IF Len(sorted) = 0 THEN <<item>>
    ELSE IF sorted[Len(sorted)].distance <= item.distance THEN Append(sorted, item)
    ELSE Append(insertByDistance(SubSeq(sorted, 1, Len(sorted) - 1), item), sorted[Len(sorted)])

RECURSIVE sortByDistance(_)
sortByDistance(items) ==
    IF Len(items) = 0 THEN <<>>
    ELSE insertByDistance(sortByDistance(SubSeq(items, 1, Len(items) - 1)), items[Len(items)])

\* the largest distance at which a field is still suggested
MaxSuggestDistance == 3

\* the number of suggestions a message lists
MaxSuggestions == 3

\* findSimilarFields that keeps the fields at every distance
findSimilarFieldsUnfiltered(contextType, fieldName) ==
    LET measured(fields) ==
            [i \in 1..Len(fields) |->
                [name |-> fields[i].name,
                 distance |-> levenshteinDistance(toLowerCase(fieldName),
                                                  toLowerCase(fields[i].name))]]
        namesOfItems(near) == [i \in 1..Len(near) |-> near[i].name]
    IN  namesOfItems(sortByDistance(measured(getFields(contextType))))

findSimilarFields(contextType, fieldName) ==
    LET measured(fields) ==
            [i \in 1..Len(fields) |->
                [name |-> fields[i].name,
                 distance |-> levenshteinDistance(toLowerCase(fieldName),
                                                  toLowerCase(fields[i].name))]]
        namesOfItems(near) == [i \in 1..Len(near) |-> near[i].name]
    IN  namesOfItems(sortByDistance(SelectSeq(measured(getFields(contextType)),
                                              LAMBDA it : it.distance <= MaxSuggestDistance)))

\* /\{\{\s*\$(\w+)\.(\w+)/ tried at offset i
matchFieldAt(s, i) ==
    LET field(dollar, nameEnd, fieldEnd) ==
            IF /\ charAt(s, dollar) = "$"
               /\ nameEnd > dollar + 1
               /\ charAt(s, nameEnd) = "."
               /\ fieldEnd > nameEnd + 1
            THEN [ok |-> TRUE, index |-> i, end |-> fieldEnd,
                  whole |-> substring(s, i, fieldEnd),
                  variableName |-> substring(s, dollar + 1, nameEnd),
                  fieldName |-> substring(s, nameEnd + 1, fieldEnd)]
            ELSE NoMatch
        name(dollar, nameEnd) == field(dollar, nameEnd, skipWord(s, nameEnd + 1))
        variable(dollar) == name(dollar, skipWord(s, dollar + 1))
    IN  IF ~matchesAt(s, i, "{{") THEN NoMatch ELSE variable(skipSpace(s, i + 2))

\* the matches the exec loop of fieldPattern visits, from lastIndex on
RECURSIVE execFieldPattern(_, _)
execFieldPattern(text, lastIndex) ==
    LET hits == {i \in lastIndex..Len(text) : matchFieldAt(text, i).ok}
        found(match) == <<match>> \o execFieldPattern(text, match.end)
    IN  IF hits = {} THEN <<>> ELSE found(matchFieldAt(text, SetMin(hits)))

\* the diagnostic of one field reference whose context is known and whose
\* field is not in the schema
unknownFieldDiagnostic(text, match, matchStart, contextType) ==
    LET reference == "$" \o match.variableName \o "." \o match.fieldName
        \* suggestions.slice(0, 3)
        shown(suggestions) ==
            SubSeq(suggestions, 1,
                   IF Len(suggestions) < MaxSuggestions THEN Len(suggestions)
                   ELSE MaxSuggestions)
        hint(suggestions) ==
            IF Len(suggestions) > 0
            THEN ". Did you mean: " \o join(shown(suggestions), ", ") \o "?" ELSE ""
    IN  Diagnostic(Range(positionAt(text, matchStart),
                         positionAt(text, matchStart + Len(reference))),
                   "Field '" \o match.fieldName \o "' does not exist in " \o contextType
                   \o " schema" \o hint(findSimilarFields(contextType, match.fieldName)),
                   "Warning", "KrakenD Schema", "unknown-field")

\* the body of the loop over the field references, for one match
validateFieldReference(text, match) ==
    LET reference == "$" \o match.variableName \o "." \o match.fieldName
        checked(matchStart, context) ==
            IF context.type = "unknown" THEN <<>>
            ELSE IF isValidField(context.type, match.fieldName) THEN <<>>
            ELSE <<unknownFieldDiagnostic(text, match, matchStart, context.type)>>
        located(matchStart) ==
            checked(matchStart, analyzeContext(text, positionAt(text, matchStart)))
    IN  located(match.index + indexOf(match.whole, reference))

\* concatenation of a sequence of sequences
RECURSIVE flatten(_)
flatten(seqs) == IF Len(seqs) = 0 THEN <<>> ELSE Head(seqs) \o flatten(Tail(seqs))

validateFieldReferences(text) ==
    LET each(matches) ==
            flatten([i \in 1..Len(matches) |-> validateFieldReference(text, matches[i])])
    IN  each(execFieldPattern(text, 0))

\* /"(\w+)":\s*"([^"]+)"/ tried at offset i of a line
matchJsonValueAt(line, i) ==
    LET q == "\""
        pair(keyEnd, open, close) ==
            IF /\ charAt(line, i) = q
               /\ keyEnd > i + 1
               /\ matchesAt(line, keyEnd, q \o ":")
               /\ charAt(line, open) = q
               /\ close > open + 1
               /\ charAt(line, close) = q
            THEN [ok |-> TRUE, index |-> i, end |-> close + 1,
                  whole |-> substring(line, i, close + 1),
                  fieldName |-> substring(line, i + 1, keyEnd),
                  value |-> substring(line, open + 1, close)]
            ELSE NoMatch
        value(keyEnd, open) == pair(keyEnd, open, skipUntil(line, open + 1, q))
        key(keyEnd) == value(keyEnd, skipSpace(line, keyEnd + 2))
    IN  key(skipWord(line, i + 1))

\* the matches the exec loop of jsonValuePattern visits, from lastIndex on
RECURSIVE execJsonValuePattern(_, _)
execJsonValuePattern(line, lastIndex) ==
    LET hits == {i \in lastIndex..Len(line) : matchJsonValueAt(line, i).ok}
        found(match) == <<match>> \o execJsonValuePattern(line, match.end)
    IN  IF hits = {} THEN <<>> ELSE found(matchJsonValueAt(line, SetMin(hits)))

\* the check of one "key": "value" match against the enum of the key in a context
enumDiagnostic(lineIndex, match, contextType) ==
    LET q == "\""
        checked(enumValues, valueStart) ==
            IF isSome(enumValues) /\ Len(valueOf(enumValues)) > 0
               /\ ~arrayIncludes(valueOf(enumValues), match.value)
            THEN <<Diagnostic(Range(Position(lineIndex, valueStart),
                                    Position(lineIndex, valueStart + Len(match.value) + 2)),
                              "Invalid value '" \o match.value \o "' for field '"
                              \o match.fieldName \o "'. Expected one of: "
                              \o join(valueOf(enumValues), ", "),
                              "Error", "KrakenD Schema", "invalid-enum-value")>>
            ELSE <<>>
    IN  IF contextType = "unknown" THEN <<>>
        ELSE checked(getEnumValues(contextType, match.fieldName),
                     match.index + indexOf(match.whole, q \o match.value \o q))

\* the body of the loop over the matches of a line that tests every value,
\* also one holding a template action
validateJsonValueUnguarded(lineIndex, match, contextType) ==
    enumDiagnostic(lineIndex, match, contextType)

\* the body of the loop over the matches of a line, for one match and the
\* context resolved for the line
validateJsonValue(lineIndex, match, contextType) ==
    IF includes(match.value, "{{") THEN <<>>
    ELSE enumDiagnostic(lineIndex, match, contextType)

\* validateEnumValues that takes the shape of a line from the binding above
\* it, whether or not the start of the line is inside an action
validateEnumValuesFromSurrounding(text) ==
    LET eachMatch(lineIndex, matches) ==
            flatten([i \in 1..Len(matches) |->
                validateJsonValue(lineIndex, matches[i],
                                  inferContextFromSurrounding(text, Position(lineIndex, 0)))])
        eachLine(lines) ==
            flatten([l \in 1..Len(lines) |->
                eachMatch(l - 1, execJsonValuePattern(lines[l], 0))])
    IN  eachLine(splitLines(text))

validateEnumValues(text) ==
    LET eachMatch(lineIndex, matches) ==
            flatten([i \in 1..Len(matches) |->
                validateJsonValue(lineIndex, matches[i],
                                  analyzeContext(text, Position(lineIndex, 0)).type)])
        eachLine(lines) ==
            flatten([l \in 1..Len(lines) |->
                eachMatch(l - 1, execJsonValuePattern(lines[l], 0))])
    IN  eachLine(splitLines(text))

\* line.replace(/\{\{[\s\S]*?\}\}/g, '0')
RECURSIVE replaceActions(_)
replaceActions(line) ==
    LET replaced(open, close) ==
            IF close = -1 THEN line
            ELSE substring(line, 0, open) \o "0"
                 \o replaceActions(substringFrom(line, close + 2))
        opened(open) ==
            replaced(open, IF open = -1 THEN -1 ELSE indexOfFrom(line, "}}", open + 2))
    IN  opened(indexOf(line, "{{"))

\* /^\s*\{\{[\s\S]*\}\}\s*$/.test(line)
isTemplateOnly(line) ==
    LET delimited(trimmed) ==
            startsWith(trimmed, "{{") /\ endsWith(trimmed, "}}") /\ Len(trimmed) >= 4
    IN  delimited(trim(line))

cleanTemplateLine(line) ==
    LET kept(cleaned) == IF trim(cleaned) # "" THEN cleaned ELSE ""
    IN  IF isTemplateOnly(line) THEN (IF includes(line, ",") THEN "," ELSE "")
        ELSE kept(replaceActions(line))

\* /"\s*[^"]+"\s*:/.test(line)
isJsonPropertyLine(line) ==
    \E i \in 0..(Len(line) - 1) :
        LET q == "\""
            close == skipUntil(line, i + 1, q)
        IN  /\ charAt(line, i) = q
            /\ close > i + 1
            /\ charAt(line, close) = q
            /\ charAt(line, skipSpace(line, close + 1)) = ":"

\* lineAllowsNoComma that knows the comma only
lineAllowsNoCommaAfterCommaOnly(line) ==
    LET last(kept) == kept # "" /\ charAt(kept, Len(kept) - 1) = ","
    IN  last(trimEnd(line))

\* /[{\[,]\s*$/.test(line)
lineAllowsNoComma(line) ==
    LET last(kept) == kept # "" /\ charAt(kept, Len(kept) - 1) \in {"{", "[", ","}
    IN  last(trimEnd(line))

\* 0-based index of the first line at or after start that is not blank, or -1
findNextNonEmptyLine(lines, start) ==
    LET hits == {i \in start..(Len(lines) - 1) : trim(lines[i + 1]) # ""}
    IN  IF hits = {} THEN -1 ELSE SetMin(hits)

\* the body of the loop over the lines, for line i
validateLineComma(rawLines, cleanedLines, i) ==
    LET line == cleanedLines[i + 1]
        rawLength == Len(rawLines[i + 1])
        \* lines 170-190
        followed(nextLine) ==
            IF nextLine = "," THEN <<>>
            ELSE IF startsWith(nextLine, "\"")
            THEN <<Diagnostic(Range(Position(i, IF rawLength - 1 > 0 THEN rawLength - 1
                                                ELSE 0),
                                    Position(i, rawLength)),
                              "Possible missing comma before next JSON property",
                              "Error", "Template JSON", "missing-comma")>>
            ELSE <<>>
        \* lines 165-168
        next(nextIndex) ==
            IF nextIndex = -1 THEN <<>> ELSE followed(trim(cleanedLines[nextIndex + 1]))
        \* lines 152-163
        property(trimmed) ==
            IF trimmed = "" \/ trimmed = "," THEN <<>>
            ELSE IF ~isJsonPropertyLine(trimmed) THEN <<>>
            ELSE IF lineAllowsNoComma(trimmed) THEN <<>>
            ELSE next(findNextNonEmptyLine(cleanedLines, i + 1))
    IN  IF line = "" THEN <<>> ELSE property(trim(line))

validateTemplateJsonCommas(document) ==
    IF ~endsWith(document.fileName, ".json.tmpl") THEN <<>>
    ELSE
    LET eachLine(rawLines, cleanedLines) ==
            flatten([l \in 1..Len(rawLines) |->
                validateLineComma(rawLines, cleanedLines, l - 1)])
        cleaned(rawLines) ==
            eachLine(rawLines, [i \in 1..Len(rawLines) |-> cleanTemplateLine(rawLines[i])])
    IN  cleaned(splitLines(document.text))

\* the list updateDiagnostics builds for a gotmpl document
computeDiagnostics(document) ==
    validateFieldReferences(document.text)
    \o validateEnumValues(document.text)
    \o validateTemplateJsonCommas(document)


\* updateDiagnostics that adds the new list to the one the collection holds
updateDiagnosticsAppending(uri, document) ==
    IF document.languageId # "gotmpl" THEN diagnosticCollection
    ELSE [diagnosticCollection EXCEPT ![uri] =
            Some((IF isSome(diagnosticCollection[uri]) THEN valueOf(diagnosticCollection[uri])
                  ELSE <<>>) \o computeDiagnostics(document))]

\* updateDiagnostics that keeps, after the new list, the diagnostics the
\* collection holds that the new list does not have
updateDiagnosticsMerging(uri, document) ==
    IF document.languageId # "gotmpl" THEN diagnosticCollection
    ELSE LET merge(held, computed) ==
                 computed \o SelectSeq(held, LAMBDA d : ~arrayIncludes(computed, d))
         IN  [diagnosticCollection EXCEPT ![uri] =
                 Some(merge(IF isSome(diagnosticCollection[uri])
                            THEN valueOf(diagnosticCollection[uri]) ELSE <<>>,
                            computeDiagnostics(document)))]

\* updateDiagnostics that clears the collection before it sets the new list
updateDiagnosticsClearing(uri, document) ==
    IF document.languageId # "gotmpl" THEN diagnosticCollection
    ELSE [u \in DOMAIN diagnosticCollection |->
             IF u = uri THEN Some(computeDiagnostics(document)) ELSE None]

\* the diagnostic collection after updateDiagnostics(document)
updateDiagnostics(uri, document) ==
    IF document.languageId # "gotmpl" THEN diagnosticCollection
    ELSE [diagnosticCollection EXCEPT ![uri] = Some(computeDiagnostics(document))]

(***************************************************************************)
(* KrakenDCompletionProvider                                               *)
(***************************************************************************)

\* the delimiter of a markdown code span (the grave accent), written as an
\* apostrophe
Tick == "'"

\* JSON.stringify of a string without characters that need an escape
jsonStringify(v) == "\"" \o v \o "\""

\* vscode.CompletionItem: the members the provider does not set are undefined
CompletionItem(label, kind) ==
    [label |-> label, kind |-> kind, detail |-> None, documentation |-> None,
     sortText |-> None, filterText |-> None, insertText |-> None]

\* textBefore.match(/\$(\w+)\.(\w*)$/), tried at offset i
matchDotAt(s, i) ==
    LET partial(nameEnd, fieldEnd) ==
            IF /\ charAt(s, i) = "$"
               /\ nameEnd > i + 1
               /\ charAt(s, nameEnd) = "."
               /\ fieldEnd = Len(s)
            THEN [ok |-> TRUE, index |-> i,
                  variableName |-> substring(s, i + 1, nameEnd),
                  partialField |-> substring(s, nameEnd + 1, fieldEnd)]
            ELSE NoMatch
        name(nameEnd) == partial(nameEnd, skipWord(s, nameEnd + 1))
    IN  name(skipWord(s, i + 1))

\* textBefore.match(/\$(\w+)\.(\w*)$/): the leftmost match
matchDot(textBefore) ==
    LET hits == {i \in 0..(Len(textBefore) - 1) : matchDotAt(textBefore, i).ok}
    IN  IF hits = {} THEN NoMatch ELSE matchDotAt(textBefore, SetMin(hits))

\* the markdown of the documentation of a field item, in append order
fieldDocumentation(field, context) ==
    "**" \o field.name \o "** (KrakenD " \o context \o ")\n\n"
    \o "Type: " \o Tick \o field.type \o Tick \o "\n\n"
    \o (IF field.description # "" THEN field.description \o "\n\n" ELSE "")
    \o (IF isSome(field.default)
        THEN "Default: " \o Tick \o jsonStringify(valueOf(field.default)) \o Tick
             \o "\n\n"
        ELSE "")
    \o (IF isSome(field.enum) /\ Len(valueOf(field.enum)) > 0
        THEN "Valid values: "
             \o join([i \in 1..Len(valueOf(field.enum)) |->
                         Tick \o valueOf(field.enum)[i] \o Tick], ", ")
             \o "\n\n"
        ELSE "")
    \o "[KrakenD Documentation](https://www.krakend.io/docs/)"

\* createFieldCompletionItem with one sort tier for every field
createFieldCompletionItemOneTier(field, context) ==
    [CompletionItem(field.name, "Field") EXCEPT
        !.detail = Some(field.type \o (IF field.required THEN " (required)" ELSE "")
                        \o " - KrakenD " \o context),
        !.documentation = Some(fieldDocumentation(field, context)),
        !.sortText = Some("!0_" \o field.name),
        !.filterText = Some(field.name)]

createFieldCompletionItem(field, context) ==
    [CompletionItem(field.name, "Field") EXCEPT
        !.detail = Some(field.type \o (IF field.required THEN " (required)" ELSE "")
                        \o " - KrakenD " \o context),
        !.documentation = Some(fieldDocumentation(field, context)),
        !.sortText = Some((IF field.required THEN "!0_" ELSE "!1_") \o field.name),
        !.filterText = Some(field.name)]

\* getFieldCompletions that keeps the fields whose name begins with the partial text
getFieldCompletionsPrefixOnly(contextType, partialField) ==
    LET items(kept) ==
            [i \in 1..Len(kept) |-> createFieldCompletionItem(kept[i], contextType)]
    IN  items(SelectSeq(getFields(contextType),
                        LAMBDA field : startsWith(toLowerCase(field.name),
                                                  toLowerCase(partialField))))

getFieldCompletions(contextType, partialField) ==
    LET items(kept) ==
            [i \in 1..Len(kept) |-> createFieldCompletionItem(kept[i], contextType)]
    IN  items(SelectSeq(getFields(contextType),
                        LAMBDA field : includes(toLowerCase(field.name),
                                                toLowerCase(partialField))))

\* textBefore.match(/"(\w+)":\s*"[^"]*$/), tried at offset i
matchJsonFieldAt(s, i) ==
    LET q == "\""
        value(keyEnd, open) ==
            IF /\ charAt(s, i) = q
               /\ keyEnd > i + 1
               /\ matchesAt(s, keyEnd, q \o ":")
               /\ charAt(s, open) = q
               /\ skipUntil(s, open + 1, q) = Len(s)
            THEN [ok |-> TRUE, index |-> i, jsonField |-> substring(s, i + 1, keyEnd)]
            ELSE NoMatch
        key(keyEnd) == value(keyEnd, skipSpace(s, keyEnd + 2))
    IN  key(skipWord(s, i + 1))

\* textBefore.match(/"(\w+)":\s*"[^"]*$/): the leftmost match
matchJsonField(textBefore) ==
    LET hits == {i \in 0..(Len(textBefore) - 1) : matchJsonFieldAt(textBefore, i).ok}
    IN  IF hits = {} THEN NoMatch ELSE matchJsonFieldAt(textBefore, SetMin(hits))

\* detectEnumContext that resolves the context at the start of the line
detectEnumContextAtLineStart(text, position) ==
    LET detected(jsonFieldMatch, context) ==
            IF jsonFieldMatch.ok /\ context.type # "unknown"
            THEN Some([context |-> context.type, field |-> jsonFieldMatch.jsonField])
            ELSE None
    IN  detected(matchJsonField(substring(lineAt(text, position.line), 0, position.character)),
                 analyzeContext(text, Position(position.line, 0)))

\* detectEnumContext: undefined, or the context type and the JSON key
detectEnumContext(text, position) ==
    LET detected(jsonFieldMatch, context) ==
            IF jsonFieldMatch.ok /\ context.type # "unknown"
            THEN Some([context |-> context.type, field |-> jsonFieldMatch.jsonField])
            ELSE None
    IN  detected(matchJsonField(substring(lineAt(text, position.line), 0, position.character)),
                 analyzeContext(text, position))

getEnumCompletions(contextType, fieldName) ==
    LET items(enumValues) ==
            IF ~isSome(enumValues) THEN <<>>
            ELSE [i \in 1..Len(valueOf(enumValues)) |->
                    [CompletionItem(valueOf(enumValues)[i], "EnumMember") EXCEPT
                        !.detail = Some("Valid " \o fieldName \o " value"),
                        !.insertText = Some(valueOf(enumValues)[i])]]
    IN  items(getEnumValues(contextType, fieldName))

\* what provideCompletionItems returns: a CompletionList, an array or undefined
CompletionResult(kind, items) == [kind |-> kind, items |-> items]

\* provideCompletionItems that offers the root fields where the context is unknown
provideCompletionItemsUnguarded(text, position) ==
    LET completed(dotMatch, templateContext) ==
            IF dotMatch.ok
            THEN CompletionResult("list",
                                  getFieldCompletions(templateContext.type,
                                                      dotMatch.partialField))
            ELSE CompletionResult("undefined", <<>>)
    IN  completed(matchDot(substring(lineAt(text, position.line), 0, position.character)),
                  analyzeContext(text, position))

provideCompletionItems(text, position) ==
    LET \* lines 45-51
        enums(enumContext) ==
            IF isSome(enumContext)
            THEN CompletionResult("array",
                                  getEnumCompletions(valueOf(enumContext).context,
                                                     valueOf(enumContext).field))
            ELSE CompletionResult("undefined", <<>>)
        \* lines 21-43
        completed(dotMatch, templateContext) ==
            IF dotMatch.ok /\ templateContext.type # "unknown"
            THEN CompletionResult("list",
                                  getFieldCompletions(templateContext.type,
                                                      dotMatch.partialField))
            ELSE enums(detectEnumContext(text, position))
    IN  completed(matchDot(substring(lineAt(text, position.line), 0, position.character)),
                  analyzeContext(text, position))

(***************************************************************************)
(* KrakenDHoverProvider                                                    *)
(***************************************************************************)

\* offset of the first character of the run of field characters that ends at i
RECURSIVE wordStart(_, _)
wordStart(line, i) ==
    IF i > 0 /\ isWordChar(charAt(line, i - 1)) THEN wordStart(line, i - 1) ELSE i

\* ContextAnalyzer.getFieldWordRange: undefined when no field character touches
\* the position
getFieldWordRange(text, position) ==
    LET ranged(start, end) ==
            IF start = end THEN None
            ELSE Some(Range(Position(position.line, start), Position(position.line, end)))
        word(line) == ranged(wordStart(line, position.character),
                             skipWord(line, position.character))
    IN  word(lineAt(text, position.line))

\* the markdown of a hover, in append order (the book symbol of the
\* documentation link is left out)
hoverMarkdown(fieldInfo, contextType) ==
    "### " \o fieldInfo.name \o "\n\n"
    \o Tick \o contextType \o Tick \o " field"
    \o (IF fieldInfo.required THEN " - **Required**" ELSE "")
    \o "\n\n---\n\n"
    \o "**Type:** " \o Tick \o fieldInfo.type \o Tick \o "\n\n"
    \o (IF isSome(fieldInfo.default)
        THEN "**Default:** " \o Tick \o jsonStringify(valueOf(fieldInfo.default)) \o Tick
             \o "\n\n"
        ELSE "")
    \o (IF fieldInfo.description # "" THEN fieldInfo.description \o "\n\n" ELSE "")
    \o (IF isSome(fieldInfo.enum) /\ Len(valueOf(fieldInfo.enum)) > 0
        THEN "**Valid values:**\n\n"
             \o join([i \in 1..Len(valueOf(fieldInfo.enum)) |->
                         "- " \o Tick \o valueOf(fieldInfo.enum)[i] \o Tick \o "\n"], "")
             \o "\n"
        ELSE "")
    \o "---\n\n"
    \o "[KrakenD Documentation](https://www.krakend.io/docs/)\n\n"
    \o (IF contextType = "endpoint"
        THEN "[Endpoint Configuration](https://www.krakend.io/docs/endpoints/)\n\n"
        ELSE IF contextType = "backend"
        THEN "[Backend Configuration](https://www.krakend.io/docs/backends/)\n\n"
        ELSE "")
    \o "[Template Syntax](https://www.krakend.io/docs/configuration/templates/)"

\* provideHover: undefined, or the hover with its markdown and range
provideHover(text, position) ==
    LET \* lines 32-86
        described(range, context, fieldInfo) ==
            IF ~isSome(fieldInfo) THEN None
            ELSE Some([contents |-> hoverMarkdown(valueOf(fieldInfo), context.type),
                       range |-> valueOf(range)])
        \* lines 25-29
        resolved(range, context) ==
            IF context.type = "unknown" THEN None
            ELSE described(range, context,
                           getFieldInfo(context.type, getText(text, valueOf(range))))
        \* lines 17-22
        ranged(range) ==
            IF ~isSome(range) THEN None ELSE resolved(range, analyzeContext(text, position))
    IN  ranged(getFieldWordRange(text, position))

(***************************************************************************)
(* The workspace: documents and the events of the host                     *)
(***************************************************************************)

\* the most lines a document grows to
MaxLines == 3

GatewayUri == "file:///gateway.json.tmpl"
RoutesUri == "file:///routes.tmpl"
NotesUri == "file:///notes.json.tmpl"

URIs == {GatewayUri, RoutesUri, NotesUri}

\* the language the host associates with each file
languageOf(uri) == IF uri = NotesUri THEN "plaintext" ELSE "gotmpl"

\* document.fileName: the path of the URI
fileNameOf(uri) == substringFrom(uri, Len("file://"))

ClosedDocument(uri) ==
    [languageId |-> languageOf(uri), fileName |-> fileNameOf(uri), isOpen |-> FALSE,
     text |-> ""]

Call(op) ==
    [op |-> op, uri |-> "", context |-> "", name |-> "", position |-> Position(0, 0),
     contentChanged |-> FALSE, replaced |-> None, result |-> <<>>]

\* the state after activate(): the store built from one of the files, no
\* document open yet
InitFrom(files) ==
    /\ schemaFile \in files
    /\ \E loaded \in {loadSchema(schemaFile)} :
          /\ constructorThrew = loaded.threw
          /\ rootFields = loaded.rootFields
          /\ endpointFields = loaded.endpointFields
          /\ backendFields = loaded.backendFields
    /\ fieldMappings = FieldMappingEntries
    /\ documents = [u \in URIs |-> ClosedDocument(u)]
    /\ diagnosticCollection = [u \in URIs |-> None]
    /\ lastCall = Call("activate")

\* onDidOpenTextDocument: the host opens a document; a run edits one document
DidOpenTextDocument(uri, text) ==
    /\ \A u \in URIs : ~documents[u].isOpen
    /\ documents' = [documents EXCEPT ![uri].isOpen = TRUE, ![uri].text = text]
    /\ diagnosticCollection' = updateDiagnostics(uri, documents'[uri])
    /\ lastCall' = [Call("didOpen") EXCEPT !.uri = uri, !.contentChanged = TRUE,
                       !.replaced = diagnosticCollection[uri]]
    /\ UNCHANGED storeVars

\* onDidChangeTextDocument: the text of an open document became newText; the
\* host also sends the event when the content did not change
DidChangeTextDocument(uri, newText) ==
    /\ documents[uri].isOpen
    /\ lineCount(newText) <= MaxLines
    /\ documents' = [documents EXCEPT ![uri].text = newText]
    /\ diagnosticCollection' = updateDiagnostics(uri, documents'[uri])
    /\ lastCall' = [Call("didChange") EXCEPT !.uri = uri,
                       !.contentChanged = (newText # documents[uri].text),
                       !.replaced = diagnosticCollection[uri]]
    /\ UNCHANGED storeVars

\* the host closes a document: activate() registers no handler for the event
DidCloseTextDocument(uri) ==
    /\ documents[uri].isOpen
    /\ documents' = [documents EXCEPT ![uri] = ClosedDocument(uri)]
    /\ lastCall' = [Call("didClose") EXCEPT !.uri = uri]
    /\ UNCHANGED <<storeVars, diagnosticCollection>>

\* the texts a change event of an open document may bring, given the lines
\* that can be typed: the same text, or the text with one more line
editsOf(uri, lines) == {documents[uri].text} \cup {documents[uri].text \o "\n" \o l : l \in lines}

\* the positions on the last line of a text at which a provider asks for the
\* context: the start of the line, the start of a variable, just after a dot and
\* the end of a word (what follows the position is not read by the analyzer)
cursorPositionsOf(text) ==
    LET lineStart == lastIndexOf(text, "\n") + 1
    IN  {positionAt(text, o) : o \in {lineStart} \cup
            {o \in lineStart..Len(text) :
                \/ charAt(text, o) = "$"
                \/ charAt(text, o - 1) = "."
                \/ isWordChar(charAt(text, o - 1)) /\ ~isWordChar(charAt(text, o))}}

\* a provider asks the analyzer for the context at a position of an open document
AnalyzeContext(uri, position) ==
    /\ documents[uri].isOpen
    /\ lastCall' = [Call("analyzeContext") EXCEPT !.uri = uri, !.position = position,
                       !.result = analyzeContext(documents[uri].text, position)]
    /\ UNCHANGED <<storeVars, documents, diagnosticCollection>>

\* parseSchema asks for the definition a reference names
ResolveRef(ref) ==
    /\ lastCall' = [Call("resolveRef") EXCEPT !.name = ref,
                       !.result = IF schemaFile.readable /\ schemaFile.valid
                                  THEN resolveRefOf(schemaFile.json, ref)
                                  ELSE resolveRefOf(None, ref)]
    /\ UNCHANGED <<storeVars, documents, diagnosticCollection>>

\* the unknown-field pass asks for the suggestions of a field name and keeps
\* the first MaxSuggestions
FindSimilarFields(context, fieldName) ==
    /\ lastCall' = [Call("findSimilarFields") EXCEPT !.context = context, !.name = fieldName,
                       !.result = LET slice(suggestions) ==
                                          SubSeq(suggestions, 1,
                                                 IF Len(suggestions) < MaxSuggestions
                                                 THEN Len(suggestions) ELSE MaxSuggestions)
                                  IN  slice(findSimilarFields(context, fieldName))]
    /\ UNCHANGED <<storeVars, documents, diagnosticCollection>>

\* getFields adding the aliases to the table itself rather than to a copy
GetFieldsInPlace(context) ==
    /\ lastCall' = [Call("getFields") EXCEPT !.context = context, !.result = getFields(context)]
    /\ endpointFields' = IF context = "endpoint" THEN getEndpointFields ELSE endpointFields
    /\ backendFields' = IF context = "backend" THEN getBackendFields ELSE backendFields
    /\ UNCHANGED <<schemaFile, constructorThrew, rootFields, fieldMappings, documents,
                   diagnosticCollection>>

\* the queries of the store
GetFields(context) ==
    /\ lastCall' = [Call("getFields") EXCEPT !.context = context, !.result = getFields(context)]
    /\ UNCHANGED <<storeVars, documents, diagnosticCollection>>

GetFieldInfo(context, fieldName) ==
    /\ lastCall' = [Call("getFieldInfo") EXCEPT !.context = context, !.name = fieldName,
                       !.result = getFieldInfo(context, fieldName)]
    /\ UNCHANGED <<storeVars, documents, diagnosticCollection>>

IsValidField(context, fieldName) ==
    /\ lastCall' = [Call("isValidField") EXCEPT !.context = context, !.name = fieldName,
                       !.result = isValidField(context, fieldName)]
    /\ UNCHANGED <<storeVars, documents, diagnosticCollection>>

GetEnumValues(context, fieldName) ==
    /\ lastCall' = [Call("getEnumValues") EXCEPT !.context = context, !.name = fieldName,
                       !.result = getEnumValues(context, fieldName)]
    /\ UNCHANGED <<storeVars, documents, diagnosticCollection>>

\* the completion provider is asked at a position of an open gotmpl document
ProvideCompletionItems(uri, position) ==
    /\ documents[uri].isOpen
    /\ documents[uri].languageId = "gotmpl"
    /\ lastCall' = [Call("provideCompletionItems") EXCEPT !.uri = uri, !.position = position,
                       !.result = provideCompletionItems(documents[uri].text, position)]
    /\ UNCHANGED <<storeVars, documents, diagnosticCollection>>

\* the hover provider is asked at a position of an open gotmpl document
ProvideHover(uri, position) ==
    /\ documents[uri].isOpen
    /\ documents[uri].languageId = "gotmpl"
    /\ lastCall' = [Call("provideHover") EXCEPT !.uri = uri, !.position = position,
                       !.result = provideHover(documents[uri].text, position)]
    /\ UNCHANGED <<storeVars, documents, diagnosticCollection>>

(***************************************************************************)
(* The store and its queries, for every schema file                        *)
(***************************************************************************)

\* the names the queries are asked about: every name a table or the alias
\* table can hold, and two names no schema has
QueryNames ==
    {"endpoint", "method", "url", "backend", "url_pattern", "encoding", "host", "version",
     "endpoints", "endpoint_url", "backend_method", "backend_encoding",
     "backend_url_pattern", "methdo", ""}

InitStore == InitFrom(SchemaFiles)

NextStore ==
    \/ \E c \in CtxTypes : GetFields(c)
    \/ \E c \in CtxTypes, n \in QueryNames : GetFieldInfo(c, n)
    \/ \E c \in CtxTypes, n \in QueryNames : IsValidField(c, n)
    \/ \E c \in CtxTypes, n \in QueryNames : GetEnumValues(c, n)

SpecStore == InitStore /\ [][NextStore]_vars


\* the names of a list of fields
namesOf(fields) == {fields[i].name : i \in 1..Len(fields)}

\* the entries of the alias table whose canonical name a table holds
aliasesIn(context) ==
    {k \in 1..Len(fieldMappings) : fieldMappings[k].key \in namesOf(tableOf(context))}

\* C1: every field name that getFields returns for a shape (root, endpoint,
\* backend), canonical or alias, is accepted by isValidField for that shape.
C1_RoundTrip ==
    \A c \in CtxTypes :
        \A i \in 1..Len(getFields(c)) : isValidField(c, getFields(c)[i].name)

\* a getFields call has returned canonical fields and an alias of one of them
C1_Witness ==
    /\ lastCall.op = "getFields"
    /\ lastCall.context = "endpoint"
    /\ {"url", "endpoint_url", "method", "backend_method"} \subseteq namesOf(lastCall.result)

\* the FieldInfo f is the alias copy of the canonical FieldInfo c under the name a:
\* required, enum (and type, default) are those of c, only name and description differ
isAliasOf(f, c, a) ==
    /\ f.name = a
    /\ f.required = c.required
    /\ f.enum = c.enum
    /\ f.type = c.type
    /\ f.default = c.default

\* what C2 says of the alias entry k in the shape c
aliasEquivalent(c, k) ==
    LET canonical == valueOf(mapGet(tableOf(c), fieldMappings[k].key))
        alias == fieldMappings[k].value
    IN  /\ isValidField(c, alias)
        /\ isAliasOf(valueOf(getFieldInfo(c, alias)), canonical, alias)
        /\ \A i \in 1..Len(getFields(c)) :
               getFields(c)[i].name = alias => isAliasOf(getFields(c)[i], canonical, alias)
        /\ c \in {"endpoint", "backend"} => alias \in namesOf(getFields(c))
        /\ getFieldInfo(c, fieldMappings[k].key) = Some(canonical)
        /\ \E i \in 1..Len(getFields(c)) : getFields(c)[i] = canonical

\* C2 as stated: for every canonical field of a table that the alias table
\* maps, the alias is valid and its FieldInfo has the required and enum of the
\* canonical field.
C2_AliasEquivalenceAsStated ==
    \A c \in CtxTypes : \A k \in aliasesIn(c) : aliasEquivalent(c, k)

\* C2 (amended): for every canonical field c of a table that the alias table
\* maps to a, provided the table holds no field that is itself named a, the
\* alias a is valid, the FieldInfo that getFieldInfo and getFields return for
\* a has the required and enum of c, and the entry of c stays present.
C2_AliasEquivalence ==
    \A c \in CtxTypes : \A k \in aliasesIn(c) :
        fieldMappings[k].value \notin namesOf(tableOf(c)) => aliasEquivalent(c, k)

\* getFieldInfo has answered for an alias of a backend field that has an enum
C2_Witness ==
    /\ lastCall.op = "getFieldInfo"
    /\ lastCall.context = "backend"
    /\ lastCall.name = "backend_method"
    /\ isSome(lastCall.result)
    /\ valueOf(lastCall.result).enum = Some(MethodEnum)
    /\ "backend_method" \notin namesOf(backendFields)

\* C10: when the schema file is missing, unreadable or not valid JSON, no
\* exception leaves the constructor, the three tables are empty and every
\* query answers empty / absent / false.
C10_SilentLoadFailure ==
    (~schemaFile.readable \/ ~schemaFile.valid) =>
        /\ ~constructorThrew
        /\ rootFields = <<>> /\ endpointFields = <<>> /\ backendFields = <<>>
        /\ \A c \in CtxTypes :
            /\ getFields(c) = <<>>
            /\ \A n \in QueryNames :
                /\ getFieldInfo(c, n) = None
                /\ ~isValidField(c, n)
                /\ getEnumValues(c, n) = None

\* a query has run on a store built from a file that JSON.parse rejects
C10_Witness ==
    /\ schemaFile = InvalidJsonFile
    /\ lastCall.op = "isValidField"
    /\ lastCall.name = "method"
    /\ lastCall.result = FALSE


(***************************************************************************)
(* The context analyzer on documents that are typed line by line           *)
(***************************************************************************)

ContextLines ==
    {"{{ range $e := .endpoints }} {{ $e.method }} {{ end }}",
     "{{ range $b := .backends }} {{ $b.encoding }} {{ end }}",
     "{{ range $backend := .endpoints }}",
     "{{ $backend.x",
     "{{ range $i, $endpoint := .backends }} {{ $endpoint.y }}"}

InitContext == InitFrom({PlainSchemaFile})

NextContext ==
    \/ \E l \in ContextLines : DidOpenTextDocument(RoutesUri, l)
    \/ \E t \in editsOf(RoutesUri, ContextLines) : DidChangeTextDocument(RoutesUri, t)
    \/ \E p \in cursorPositionsOf(documents[RoutesUri].text) : AnalyzeContext(RoutesUri, p)

SpecContext == InitContext /\ [][NextContext]_vars

\* the text of the document of the last call, up to the position of the call
textBeforeCall == substring(documents[lastCall.uri].text, 0,
                            offsetAt(documents[lastCall.uri].text, lastCall.position))

\* the text of the document of the last call, from the position of the call on
textAfterCall == substringFrom(documents[lastCall.uri].text,
                               offsetAt(documents[lastCall.uri].text, lastCall.position))

\* the position of the last call is where reference occurs, and the last range
\* action before it is binding
occursAfterBinding(reference, binding) ==
    /\ startsWith(textAfterCall, reference)
    /\ lastIndexOf(textBeforeCall, "{{ range") # -1
    /\ lastIndexOf(textBeforeCall, "{{ range") = lastIndexOf(textBeforeCall, binding)

\* C3 as stated: resolving the context at the occurrence of $e.method after
\* {{ range $e := .endpoints }} yields endpoint, and at the occurrence of
\* $b.encoding after {{ range $b := .backends }} yields backend.
C3_ResolveAtOccurrence ==
    lastCall.op = "analyzeContext" =>
        /\ occursAfterBinding("$e.method", "{{ range $e := .endpoints }}")
              => lastCall.result.type = "endpoint"
        /\ occursAfterBinding("$b.encoding", "{{ range $b := .backends }}")
              => lastCall.result.type = "backend"

\* the shape the source expression of a binding names
shapeOfExpression(rangeExpression) ==
    IF includes(rangeExpression, "endpoints") THEN "endpoint"
    ELSE IF includes(rangeExpression, "backends") THEN "backend"
    ELSE "unknown"

\* the shape the name of a variable suggests
shapeOfName(variableName) ==
    IF includes(toLowerCase(variableName), "endpoint") THEN "endpoint"
    ELSE IF includes(toLowerCase(variableName), "backend") THEN "backend"
    ELSE "unknown"

\* the nearest binding before the position of the last call
nearestBinding == lastRangeMatch(textBeforeCall, 0, NoMatch)

\* the last call resolved a variable whose name suggests one shape under a
\* binding whose source expression names the other
bindingAndNameDisagree ==
    /\ lastCall.op = "analyzeContext"
    /\ isSome(lastCall.result.variableName)
    /\ nearestBinding.ok
    /\ shapeOfExpression(nearestBinding.rangeExpression) # "unknown"
    /\ shapeOfName(valueOf(lastCall.result.variableName))
          \notin {"unknown", shapeOfExpression(nearestBinding.rangeExpression)}

\* C4: whenever the source expression of the nearest iteration binding names a
\* shape and the name of the accessed variable suggests the other shape, the
\* resolver returns the shape of the source expression.
C4_BindingWinsOverName ==
    bindingAndNameDisagree =>
        lastCall.result.type = shapeOfExpression(nearestBinding.rangeExpression)

\* $backend.x has been resolved under {{ range $backend := .endpoints }}
C4_Witness ==
    /\ bindingAndNameDisagree
    /\ lastCall.result.variableName = Some("backend")
    /\ nearestBinding.rangeExpression = ".endpoints "
    /\ lastCall.result.type = "endpoint"


(***************************************************************************)
(* The validator on documents that reference fields                        *)
(***************************************************************************)

FieldLines ==
    {"{{ range $e := .endpoints }}",
     "{{ $e.methdo }}",
     "{{ $e.method }}",
     "{{ range $e := .endpoints }} {{ $e.methdo }} {{ end }}",
     "{{ $endpoint.methdo }}"}

InitFields == InitFrom({PlainSchemaFile, UnresolvedSchemaFile})

NextFields ==
    \/ \E u \in URIs, l \in FieldLines : DidOpenTextDocument(u, l)
    \/ \E u \in URIs : \E t \in editsOf(u, FieldLines) : DidChangeTextDocument(u, t)

SpecFields == InitFields /\ [][NextFields]_vars

\* the documents the validator has validated: open, of language gotmpl
validated(u) == documents[u].isOpen /\ documents[u].languageId = "gotmpl"

\* the diagnostics the collection holds for a document
diagnosticsOf(u) ==
    IF isSome(diagnosticCollection[u]) THEN valueOf(diagnosticCollection[u]) ELSE <<>>

\* C5 as stated: a reference to the field methdo at a position under a binding
\* over the endpoints, when the endpoint shape has method but not methdo, gets
\* an unknown-field diagnostic that suggests method.
C5_UnknownFieldReported ==
    \A u \in URIs :
        (validated(u) /\ "method" \in namesOf(endpointFields)
                      /\ "methdo" \notin namesOf(getEndpointFields)) =>
            LET text == documents[u].text
                matches == execFieldPattern(text, 0)
            IN  \A i \in 1..Len(matches) :
                    (/\ matches[i].fieldName = "methdo"
                     /\ inferContextFromSurrounding(text, positionAt(text, matches[i].end))
                            = "endpoint") =>
                        \E k \in 1..Len(diagnosticsOf(u)) :
                            /\ diagnosticsOf(u)[k].code = "unknown-field"
                            /\ offsetAt(text, diagnosticsOf(u)[k].range.end) = matches[i].end
                            /\ includes(diagnosticsOf(u)[k].message, "method")

(***************************************************************************)
(* The validator on documents with JSON string values                      *)
(***************************************************************************)

EnumLines ==
    {"{{ range $e := .endpoints }}",
     "\"method\": \"GETT\"",
     "\"method\": \"GET\"",
     "\"method\": \"{{ $e.method }}\"",
     "{{ range $b := .backends }} \"encoding\": \"{{ $b.x }}\", \"method\": \"get\""}

InitEnum == InitFrom({PlainSchemaFile, UnresolvedSchemaFile})

NextEnum ==
    \/ \E u \in URIs, l \in EnumLines : DidOpenTextDocument(u, l)
    \/ \E u \in URIs : \E t \in editsOf(u, EnumLines) : DidChangeTextDocument(u, t)

SpecEnum == InitEnum /\ [][NextEnum]_vars

\* the invalid-enum-value diagnostics of a document that start on a line
enumDiagnosticsOn(u, line) ==
    {k \in 1..Len(diagnosticsOf(u)) :
        /\ diagnosticsOf(u)[k].code = "invalid-enum-value"
        /\ diagnosticsOf(u)[k].range.start.line = line}

\* C6 as stated: where method has the enum GET, POST, PUT in the shape of the
\* binding that encloses the line, a line "method": "GETT" gets exactly one
\* invalid-enum-value diagnostic and a line "method": "GET" gets none.
C6_EnumChecked ==
    \A u \in URIs : validated(u) =>
        LET text == documents[u].text
            lines == splitLines(text)
        IN  \A l \in 1..Len(lines) :
                LET shape == inferContextFromSurrounding(text, Position(l - 1, 0))
                IN  (shape # "unknown" /\ getEnumValues(shape, "method") = Some(MethodEnum)) =>
                        /\ lines[l] = "\"method\": \"GETT\""
                              => Cardinality(enumDiagnosticsOn(u, l - 1)) = 1
                        /\ lines[l] = "\"method\": \"GET\""
                              => Cardinality(enumDiagnosticsOn(u, l - 1)) = 0

\* the "key": "value" pairs of a line whose value holds an opening delimiter
templateValuedPairs(line) ==
    LET matches == execJsonValuePattern(line, 0)
    IN  {i \in 1..Len(matches) : includes(matches[i].value, "{{")}

\* C7: a "key": "value" pair whose value contains {{ never yields an
\* invalid-enum-value diagnostic: no diagnostic of a document spans such a
\* value, and the check of such a pair yields nothing in whatever context
\* the line is resolved to.
C7_TemplateValuesSkipped ==
    \A u \in URIs : validated(u) =>
        LET text == documents[u].text
            lines == splitLines(text)
        IN  /\ \A k \in 1..Len(diagnosticsOf(u)) :
                   diagnosticsOf(u)[k].code = "invalid-enum-value" =>
                       ~includes(getText(text, diagnosticsOf(u)[k].range), "{{")
            /\ \A l \in 1..Len(lines) :
                   LET matches == execJsonValuePattern(lines[l], 0)
                   IN  \A i \in templateValuedPairs(lines[l]) : \A c \in CtxTypes :
                           validateJsonValue(l - 1, matches[i], c) = <<>>

\* a document with a template-valued method under a binding over the endpoints
\* has been validated against a schema whose method has an enum
C7_Witness ==
    /\ lastCall.op = "didChange"
    /\ validated(lastCall.uri)
    /\ getEnumValues("endpoint", "method") = Some(MethodEnum)
    /\ LET lines == splitLines(documents[lastCall.uri].text)
       IN  /\ Len(lines) = 2
           /\ lines[1] = "{{ range $e := .endpoints }}"
           /\ templateValuedPairs(lines[2]) # {}


(***************************************************************************)
(* The validator on documents that render JSON                             *)
(***************************************************************************)

CommaLines ==
    {"\"a\": 1",
     "  \"b\": 2,",
     "\"c\": {",
     "{{ if .x }},{{ end }}",
     "",
     " \"d\": {{ .v }} "}

InitComma == InitFrom({PlainSchemaFile})

NextComma ==
    \/ \E u \in URIs, l \in CommaLines : DidOpenTextDocument(u, l)
    \/ \E u \in URIs : \E t \in editsOf(u, CommaLines) : DidChangeTextDocument(u, t)

SpecComma == InitComma /\ [][NextComma]_vars

\* the missing-comma diagnostics of a document that start on a line
commaDiagnosticsOn(u, line) ==
    {k \in 1..Len(diagnosticsOf(u)) :
        /\ diagnosticsOf(u)[k].code = "missing-comma"
        /\ diagnosticsOf(u)[k].range.start.line = line}

\* the neutralized lines of a document, trimmed
neutralized(u) ==
    LET raw == splitLines(documents[u].text)
    IN  [l \in 1..Len(raw) |-> trim(cleanTemplateLine(raw[l]))]

\* t holds a quoted key followed by a colon
hasQuotedKey(t) ==
    \E a \in 0..(Len(t) - 1), b \in 0..(Len(t) - 1) :
        /\ a + 1 < b
        /\ charAt(t, a) = "\"" /\ charAt(t, b) = "\""
        /\ \A m \in (a + 1)..(b - 1) : charAt(t, m) # "\""
        /\ \E colon \in (b + 1)..(Len(t) - 1) :
              /\ charAt(t, colon) = ":"
              /\ \A m \in (b + 1)..(colon - 1) : isSpace(charAt(t, m))

\* line l (1-based) is a property line that does not end in {, [ or , and the
\* next non-blank neutralized line begins with a quote
expectsComma(u, l) ==
    LET lines == neutralized(u)
        t == lines[l]
        later == {j \in (l + 1)..Len(lines) : lines[j] # ""}
    IN  /\ hasQuotedKey(t)
        /\ ~(endsWith(t, "{") \/ endsWith(t, "[") \/ endsWith(t, ","))
        /\ later # {}
        /\ startsWith(lines[SetMin(later)], "\"")
        /\ lines[SetMin(later)] # ","

\* C8: in a validated document whose file name ends in .json.tmpl, a property
\* line whose neutralized text does not end in {, [ or , has exactly one
\* missing-comma diagnostic, an error at the last character of its raw line, iff
\* the next non-blank neutralized line begins with a quote; no other line has one.
C8_MissingComma ==
    \A u \in URIs : (validated(u) /\ endsWith(documents[u].fileName, ".json.tmpl")) =>
        LET raw == splitLines(documents[u].text)
        IN  \A l \in 1..Len(raw) :
                /\ Cardinality(commaDiagnosticsOn(u, l - 1))
                       = (IF expectsComma(u, l) THEN 1 ELSE 0)
                /\ \A k \in commaDiagnosticsOn(u, l - 1) :
                       /\ diagnosticsOf(u)[k].severity = "Error"
                       /\ diagnosticsOf(u)[k].range
                              = Range(Position(l - 1, Len(raw[l]) - 1),
                                      Position(l - 1, Len(raw[l])))

\* the lines "a": 1 and "b": 2, have been validated: one diagnostic, on the first
C8_Witness ==
    /\ lastCall.op = "didChange"
    /\ lastCall.uri = GatewayUri
    /\ splitLines(documents[GatewayUri].text) = <<"\"a\": 1", "  \"b\": 2,">>
    /\ Len(diagnosticsOf(GatewayUri)) = 1
    /\ commaDiagnosticsOn(GatewayUri, 0) = {1}

\* C9: a second updateDiagnostics on an unchanged document leaves the list of
\* the document in the collection as the first call set it.
C9_Idempotent ==
    [][\A u \in URIs :
          (/\ lastCall.uri = u /\ lastCall.op \in {"didOpen", "didChange"}
           /\ lastCall'.uri = u /\ lastCall'.op = "didChange"
           /\ ~lastCall'.contentChanged)
          => diagnosticCollection'[u] = diagnosticCollection[u]]_vars

\* a document with a diagnostic has been validated again without a change
C9_Witness ==
    /\ lastCall.op = "didChange"
    /\ ~lastCall.contentChanged
    /\ Len(diagnosticsOf(lastCall.uri)) > 0


(***************************************************************************)
(* The completion and hover providers on documents typed line by line      *)
(***************************************************************************)

CompletionLines ==
    {"{{ range $e := .endpoints }}",
     "{{ $e.UR",
     "{{ $backend.method }}",
     "\"method\": \"{{ $endpoint",
     "\"method\": \"GE"}

InitCompletion == InitFrom({PlainSchemaFile})

\* the positions on the last line of a text at which the host asks a provider:
\* those of cursorPositionsOf and the end of the text
requestPositionsOf(text) == cursorPositionsOf(text) \cup {positionAt(text, Len(text))}

NextCompletion ==
    \/ \E l \in CompletionLines : DidOpenTextDocument(RoutesUri, l)
    \/ \E t \in editsOf(RoutesUri, CompletionLines) : DidChangeTextDocument(RoutesUri, t)
    \/ \E p \in requestPositionsOf(documents[RoutesUri].text) :
          ProvideCompletionItems(RoutesUri, p)
    \/ \E p \in requestPositionsOf(documents[RoutesUri].text) : ProvideHover(RoutesUri, p)

SpecCompletion == InitCompletion /\ [][NextCompletion]_vars

\* the text of the document of the last call
textOfCall == documents[lastCall.uri].text

\* the line of the position of the last call, up to the position
lineBeforeCall == substring(lineAt(textOfCall, lastCall.position.line), 0,
                            lastCall.position.character)

\* the resolver returns unknown at the position of the last call
unknownAtCall == analyzeContext(textOfCall, lastCall.position).type = "unknown"

\* C11: where the resolver returns unknown, the validator emits no
\* unknown-field diagnostic (at that position) and no invalid-enum-value
\* diagnostic (on the line resolved at its start), a completion request yields
\* no candidate and a hover request no content.
C11_UnknownIsNoOp ==
    /\ \A u \in URIs : validated(u) =>
          \A k \in 1..Len(diagnosticsOf(u)) :
              /\ diagnosticsOf(u)[k].code = "unknown-field" =>
                    analyzeContext(documents[u].text,
                                   diagnosticsOf(u)[k].range.start).type # "unknown"
              /\ diagnosticsOf(u)[k].code = "invalid-enum-value" =>
                    analyzeContext(documents[u].text,
                                   Position(diagnosticsOf(u)[k].range.start.line, 0)).type
                        # "unknown"
    /\ (lastCall.op = "provideCompletionItems" /\ unknownAtCall) =>
          lastCall.result = CompletionResult("undefined", <<>>)
    /\ (lastCall.op = "provideHover" /\ unknownAtCall) => lastCall.result = None

\* completion has been asked after $e.UR where nothing tells the shape of $e,
\* with a root table that holds a field containing ur
C11_Witness ==
    /\ lastCall.op = "provideCompletionItems"
    /\ matchDot(lineBeforeCall).ok
    /\ matchDot(lineBeforeCall).partialField = "UR"
    /\ unknownAtCall
    /\ "url" \in namesOf(getRootFields)
    /\ lastCall.result.kind = "undefined"


(***************************************************************************)
(* The store and the validator for schemas whose references name nothing   *)
(***************************************************************************)

DegradedSchemaFiles ==
    {UnresolvedSchemaFile, UnresolvedBackendSchemaFile, NoDefinitionsSchemaFile,
     EmptyObjectSchemaFile, PlainSchemaFile}

DegradedLines ==
    {"{{ range $e := .endpoints }}",
     "{{ $e.methdo }} {{ $e.method }}",
     "{{ range $b := .backends }} {{ $b.host }}",
     "{{ $backend.encoding }}"}

InitDegraded == InitFrom(DegradedSchemaFiles)

NextDegraded ==
    \/ \E u \in URIs, l \in DegradedLines : DidOpenTextDocument(u, l)
    \/ \E u \in URIs : \E t \in editsOf(u, DegradedLines) : DidChangeTextDocument(u, t)

SpecDegraded == InitDegraded /\ [][NextDegraded]_vars

\* the keys a reference is looked up by: the reference without #/definitions/,
\* that path escaped, and that path unescaped and percent-decoded (undefined
\* when the decoding fails)
candidateKeys(ref) ==
    <<Some(replaceFirst(ref, "#/definitions/", "")),
      Some(replaceAll(replaceAll(replaceFirst(ref, "#/definitions/", ""), "/", "~1"),
                      ":", "%3A")),
      decodeURIComponent(replaceAll(replaceAll(replaceFirst(ref, "#/definitions/", ""),
                                               "~1", "/"), "%3A", ":"))>>

\* the definitions of the schema file, none when the member is absent
definitionsOfFile ==
    IF isSome(schemaFile.json) /\ isSome(valueOf(schemaFile.json).definitions)
    THEN valueOf(valueOf(schemaFile.json).definitions) ELSE <<>>

\* the definitions of the schema file that a reference names by one of its keys
namedBy(optRef) ==
    IF ~truthyString(optRef) THEN {}
    ELSE {i \in 1..Len(definitionsOfFile) :
             \E k \in 1..3 : candidateKeys(valueOf(optRef))[k]
                                 = Some(definitionsOfFile[i].key)}

\* the reference of the items of a property of the schema file
endpointRefOfFile ==
    IF isSome(schemaFile.json) /\ isSome(valueOf(schemaFile.json).properties)
    THEN itemsRef(lookup(valueOf(valueOf(schemaFile.json).properties), "endpoints"))
    ELSE None

backendRefOfFile ==
    IF namedBy(endpointRefOfFile) = {} THEN None
    ELSE LET def == definitionsOfFile[SetMin(namedBy(endpointRefOfFile))].value
         IN  IF isSome(def.properties)
             THEN itemsRef(lookup(valueOf(def.properties), "backend")) ELSE None

\* the unknown-field diagnostics of a document that name a shape
unknownFieldDiagnosticsIn(u, shape) ==
    {k \in 1..Len(diagnosticsOf(u)) :
        /\ diagnosticsOf(u)[k].code = "unknown-field"
        /\ includes(diagnosticsOf(u)[k].message, "in " \o shape \o " schema")}

\* C12: when no key of the endpoint (backend) reference names a definition, or
\* the reference is absent, the endpoint (backend) table is empty, no exception
\* leaves the constructor, and no validated document has an unknown-field
\* diagnostic about the shape of an empty table.
C12_UnresolvedDegrades ==
    /\ namedBy(endpointRefOfFile) = {} => endpointFields = <<>> /\ backendFields = <<>>
    /\ namedBy(backendRefOfFile) = {} => backendFields = <<>>
    /\ ~constructorThrew
    /\ \A u \in URIs : validated(u) =>
          /\ endpointFields = <<>> => unknownFieldDiagnosticsIn(u, "endpoint") = {}
          /\ backendFields = <<>> => unknownFieldDiagnosticsIn(u, "backend") = {}

\* a document that reads $e.methdo under a binding over the endpoints has been
\* validated against a schema whose endpoint reference names no definition
\* although the schema has definitions
C12_Witness ==
    /\ lastCall.op = "didChange"
    /\ validated(lastCall.uri)
    /\ truthyString(endpointRefOfFile)
    /\ Len(definitionsOfFile) > 0
    /\ namedBy(endpointRefOfFile) = {}
    /\ endpointFields = <<>>
    /\ splitLines(documents[lastCall.uri].text)
          = <<"{{ range $e := .endpoints }}", "{{ $e.methdo }} {{ $e.method }}">>
    /\ diagnosticsOf(lastCall.uri) = <<>>


(***************************************************************************)
(* The diagnostic collection across the events of a document               *)
(***************************************************************************)

RewriteLines == {"\"a\": 1", "\"c\": {", "}", "{{ $e.methdo }}"}

InitRewrite == InitFrom({PlainSchemaFile})

\* the text a document had before its last line was typed
textBeforeLastLine(text) ==
    join(SubSeq(splitLines(text), 1, lineCount(text) - 1), "\n")

\* the texts a change event may bring when the last line can also be deleted
rewritesOf(uri, lines) ==
    editsOf(uri, lines)
    \cup (IF lineCount(documents[uri].text) >= 2
          THEN {textBeforeLastLine(documents[uri].text)} ELSE {})

NextRewrite ==
    \/ \E u \in URIs, l \in RewriteLines : DidOpenTextDocument(u, l)
    \/ \E u \in URIs : \E t \in rewritesOf(u, RewriteLines) : DidChangeTextDocument(u, t)

SpecRewrite == InitRewrite /\ [][NextRewrite]_vars

\* C13: after every open and change event, a gotmpl document has in the
\* collection exactly the list computed from the text the event brought, and a
\* document of another language has no entry.
C13_LastWriteWins ==
    \A u \in URIs :
        diagnosticCollection[u] =
            IF validated(u) THEN Some(computeDiagnostics(documents[u])) ELSE None

\* a change event has replaced a list with a diagnostic that the list of the
\* new text does not have
C13_Witness ==
    /\ lastCall.op = "didChange"
    /\ lastCall.contentChanged
    /\ validated(lastCall.uri)
    /\ isSome(lastCall.replaced)
    /\ \E k \in 1..Len(valueOf(lastCall.replaced)) :
          ~arrayIncludes(diagnosticsOf(lastCall.uri), valueOf(lastCall.replaced)[k])
    /\ Len(diagnosticsOf(lastCall.uri)) > 0


(***************************************************************************)
(* The order of the fields getFields returns                               *)
(***************************************************************************)

\* the names of a list of fields, in order
nameSeq(fields) == [i \in 1..Len(fields) |-> fields[i].name]

\* the positions of a table whose field the alias table maps
mappedIn(table) ==
    {i \in 1..Len(table) : truthyString(lookup(fieldMappings, table[i].name))}

\* the j-th smallest member of a set of numbers
nth(S, j) == CHOOSE i \in S : Cardinality({m \in S : m < i}) = j - 1

\* the position in the alias table of the first entry with an alias name
aliasTableIndex(alias) ==
    SetMin({k \in 1..Len(fieldMappings) : fieldMappings[k].value = alias})

\* the part of a getFields result after the canonical fields
aliasPart(context) ==
    SubSeq(getFields(context), Len(tableOf(context)) + 1, Len(getFields(context)))

\* the root table has the properties of the schema file, in their order
rootInPropertyOrder ==
    (/\ schemaFile.readable /\ schemaFile.valid /\ isSome(schemaFile.json)
     /\ isSome(valueOf(schemaFile.json).properties))
    => nameSeq(rootFields)
          = [i \in 1..Len(valueOf(valueOf(schemaFile.json).properties)) |->
                valueOf(valueOf(schemaFile.json).properties)[i].key]

labelsOfCall == [i \in 1..Len(lastCall.result.items) |-> lastCall.result.items[i].label]

\* the last call is a completion request after $identifier.partial
fieldCompletionCall == lastCall.op = "provideCompletionItems" /\ matchDot(lineBeforeCall).ok

\* the fields of a shape whose name contains the partial text, whatever the case
containing(context, partial) ==
    SelectSeq(getFields(context),
              LAMBDA field : includes(toLowerCase(field.name), toLowerCase(partial)))

\* C15 as stated: a completion request after $identifier.partial in a known
\* context returns the fields of the shape whose name contains partial, the
\* required ones first and then the optional ones, each group in the order of
\* getFields.
C15_FieldCompletionAsStated ==
    fieldCompletionCall =>
        \E ctx \in {analyzeContext(textOfCall, lastCall.position).type} :
            ctx # "unknown" =>
                \E kept \in {containing(ctx, matchDot(lineBeforeCall).partialField)} :
                    labelsOfCall = nameSeq(SelectSeq(kept, LAMBDA f : f.required)
                                           \o SelectSeq(kept, LAMBDA f : ~f.required))

\* C15 (amended): a completion request after $identifier.partial in a known
\* context returns a list with one item for each field of the shape whose name
\* contains partial as a substring, whatever the case (every field when partial
\* is empty), in the order of getFields, required and optional fields mixed.
C15_FieldCompletion ==
    fieldCompletionCall =>
        \E ctx \in {analyzeContext(textOfCall, lastCall.position).type} :
            ctx # "unknown" =>
                /\ lastCall.result.kind = "list"
                /\ labelsOfCall
                      = nameSeq(containing(ctx, matchDot(lineBeforeCall).partialField))

\* completion after $e.UR under a binding over the endpoints has returned url
\* and endpoint_url, whose name has ur in another case and not at its start
C15_Witness ==
    /\ fieldCompletionCall
    /\ matchDot(lineBeforeCall).partialField = "UR"
    /\ ~unknownAtCall
    /\ labelsOfCall = <<"url", "endpoint_url">>


(***************************************************************************)
(* The sort keys of the candidates                                         *)
(***************************************************************************)

\* the characters of sort keys and field names, by ascending UTF-16 code unit
CodeUnitOrder == "!0123456789ABCDEFGHIJKLMNOPQRSTUVWXYZ_abcdefghijklmnopqrstuvwxyz"

\* a < b on strings: the comparison by code units
RECURSIVE stringLess(_, _)
stringLess(a, b) ==
    IF b = "" THEN FALSE
    ELSE IF a = "" THEN TRUE
    ELSE IF charAt(a, 0) = charAt(b, 0) THEN stringLess(substringFrom(a, 1), substringFrom(b, 1))
    ELSE indexOf(CodeUnitOrder, charAt(a, 0)) < indexOf(CodeUnitOrder, charAt(b, 0))

\* the sort keys of the items stand as the claim says for the fields they were
\* made from
tieredThenByName(fields, items) ==
    \A i, j \in 1..Len(fields) :
        LET before == stringLess(valueOf(items[i].sortText), valueOf(items[j].sortText))
        IN  /\ (fields[i].required /\ ~fields[j].required) => before
            /\ (fields[i].required = fields[j].required)
                  => (before <=> stringLess(fields[i].name, fields[j].name))

\* C16: in the result of a field completion, the sort key of a required field
\* is smaller in string order than the sort key of an optional field, and two
\* fields of one tier have their sort keys in the order of their names.
C16_SortKey ==
    (fieldCompletionCall /\ lastCall.result.kind = "list") =>
        \E ctx \in {analyzeContext(textOfCall, lastCall.position).type} :
            /\ Len(lastCall.result.items)
                  = Len(containing(ctx, matchDot(lineBeforeCall).partialField))
            /\ tieredThenByName(containing(ctx, matchDot(lineBeforeCall).partialField),
                                lastCall.result.items)

\* a field completion has returned the required url and the optional method,
\* whose name comes first in string order
C16_Witness ==
    /\ fieldCompletionCall
    /\ lastCall.result.kind = "list"
    /\ stringLess("method", "url")
    /\ \E i, j \in 1..Len(lastCall.result.items) :
          /\ lastCall.result.items[i].label = "url"
          /\ lastCall.result.items[i].sortText = Some("!0_url")
          /\ lastCall.result.items[j].label = "method"
          /\ lastCall.result.items[j].sortText = Some("!1_method")
    /\ valueOf(getFieldInfo("endpoint", "url")).required
    /\ ~valueOf(getFieldInfo("endpoint", "method")).required


(***************************************************************************)
(* The candidates of an enum completion                                    *)
(***************************************************************************)

\* the last call is a completion request after "key": "partial that is not also
\* one after $identifier.partial
enumCompletionCall ==
    /\ lastCall.op = "provideCompletionItems"
    /\ matchJsonField(lineBeforeCall).ok
    /\ ~matchDot(lineBeforeCall).ok

\* the enum values of a key in a shape, none for an unknown shape, a key
\* without enum or an empty enum
enumLabels(ctx, key) ==
    IF ctx = "unknown" THEN <<>>
    ELSE LET values(enumValues) == IF isSome(enumValues) THEN valueOf(enumValues) ELSE <<>>
         IN  values(getEnumValues(ctx, key))

\* C17 as stated: the candidates of an enum completion are the enum values of
\* the key in the shape that the resolver gives at the start of the line of the
\* cursor, and there is none when that shape is unknown.
C17_EnumCompletionAsStated ==
    enumCompletionCall =>
        labelsOfCall
            = enumLabels(analyzeContext(textOfCall, Position(lastCall.position.line, 0)).type,
                         matchJsonField(lineBeforeCall).jsonField)

\* C17 (amended): for a completion request after "key": "partial whose text
\* before the cursor does not end in $identifier.partial, the shape is the one
\* the resolver gives at the cursor; when it is unknown the result is undefined,
\* otherwise it is an array of the enum values of the key in that shape, in
\* schema order and whatever the partial text (empty when the key has no enum).
C17_EnumCompletion ==
    enumCompletionCall =>
        \E ctx \in {analyzeContext(textOfCall, lastCall.position).type} :
            /\ lastCall.result.kind = (IF ctx = "unknown" THEN "undefined" ELSE "array")
            /\ labelsOfCall = enumLabels(ctx, matchJsonField(lineBeforeCall).jsonField)
            /\ \A i \in 1..Len(lastCall.result.items) :
                  /\ lastCall.result.items[i].kind = "EnumMember"
                  /\ lastCall.result.items[i].insertText
                        = Some(lastCall.result.items[i].label)

\* completion after "method": "{{ $endpoint has returned the values of the
\* enum of method, none of which contains the partial text
C17_Witness ==
    /\ enumCompletionCall
    /\ lineBeforeCall = "\"method\": \"{{ $endpoint"
    /\ matchJsonField(lineBeforeCall).jsonField = "method"
    /\ lastCall.result.kind = "array"
    /\ labelsOfCall = MethodEnum
    /\ Len(MethodEnum) > 1


(***************************************************************************)
(* The keys a reference is resolved by                                     *)
(***************************************************************************)

RefPool ==
    {"#/definitions/endpoint.json", "#/definitions/backend.json",
     "#/definitions/missing.json", "#/definitions/k:/endpoint.json",
     "#/definitions/k%3A~1endpoint.json", "#/definitions/k%3A~1backend.json",
     "#/definitions/k%2Fb%ZZ", "#/definitions/a/b", "#/definitions/a~1b",
     "#/definitions/p:q~1r", "#/definitions/bad%ZZ", "p:q/r"}

InitResolve == InitFrom(SchemaFiles \cup {PrecedenceSchemaFile, UnresolvedBackendSchemaFile})

NextResolve ==
    \/ \E ref \in RefPool : ResolveRef(ref)
    \/ \E c \in CtxTypes : GetFields(c)

SpecResolve == InitResolve /\ [][NextResolve]_vars

\* the definition under the first of three optional keys that is a key of the
\* definitions, none when no key is
firstHit(definitions, keys) ==
    LET hits == {k \in 1..3 : isSome(keys[k]) /\ isSome(lookup(definitions, valueOf(keys[k])))}
    IN  IF hits = {} THEN None ELSE lookup(definitions, valueOf(keys[SetMin(hits)]))

\* C18: resolveRef returns the definition under the first of these keys that
\* the definitions hold: the reference without #/definitions/, that path with
\* / as ~1 and : as %3A, that path with ~1 as / and %3A as : and then
\* percent-decoded; a path that cannot be decoded gives no third key, and when
\* no key is held the result is absent.
C18_ResolveOrder ==
    (lastCall.op = "resolveRef" /\ ~lastCall.result.threw /\ definitionsOfFile # <<>>) =>
        lastCall.result.value = firstHit(definitionsOfFile, candidateKeys(lastCall.name))

\* a reference has been resolved whose path is no key while its escaped and its
\* unescaped form are keys of different definitions: the escaped one is returned
C18_Witness ==
    /\ lastCall.op = "resolveRef"
    /\ lastCall.name = "#/definitions/p:q~1r"
    /\ candidateKeys(lastCall.name) = <<Some("p:q~1r"), Some("p%3Aq~1r"), Some("p:q/r")>>
    /\ ~isSome(lookup(definitionsOfFile, "p:q~1r"))
    /\ lookup(definitionsOfFile, "p:q/r") = Some(Marked("decoded"))
    /\ lastCall.result.value = Some(Marked("encoded"))


(***************************************************************************)
(* The context analyzer inside and outside of actions                      *)
(***************************************************************************)

ActionLines ==
    {"{{ range $e := .endpoints }}",
     "{{ $e.url }} $e",
     "{{ if .x",
     "{{ $e.url",
     "$endpoint.url"}

InitAction == InitFrom({PlainSchemaFile})

NextAction ==
    \/ \E l \in ActionLines : DidOpenTextDocument(RoutesUri, l)
    \/ \E t \in editsOf(RoutesUri, ActionLines) : DidChangeTextDocument(RoutesUri, t)
    \/ \E p \in requestPositionsOf(documents[RoutesUri].text) : AnalyzeContext(RoutesUri, p)

SpecAction == InitAction /\ [][NextAction]_vars

\* a text holds a $ that an identifier character follows
hasVariable(s) ==
    \E i \in 0..(Len(s) - 2) : charAt(s, i) = "$" /\ isWordChar(charAt(s, i + 1))

\* the position of the last call is inside an action that is open on its line
insideOpenAction ==
    /\ includes(lineBeforeCall, "{{")
    /\ lastIndexOf(lineBeforeCall, "}}") < lastIndexOf(lineBeforeCall, "{{")

\* the text between the last {{ of the line and the position of the last call
actionTextOfCall == substringFrom(lineBeforeCall, lastIndexOf(lineBeforeCall, "{{") + 2)

\* C19: the resolver answers Unknown at a position that is not inside an action
\* open on its line, and at a position inside one whose text up to the position
\* holds no $identifier, whatever the lines above and the text before the
\* action bind.
C19_UnknownOutsideAction ==
    (lastCall.op = "analyzeContext"
     /\ (~insideOpenAction \/ ~hasVariable(actionTextOfCall)))
    => lastCall.result = UnknownContext

\* the resolver has answered Unknown for $e after the closed action of a line
\* that follows a binding of $e over the endpoints
C19_Witness ==
    /\ lastCall.op = "analyzeContext"
    /\ splitLines(textOfCall) = <<"{{ range $e := .endpoints }}", "{{ $e.url }} $e">>
    /\ lastCall.position = Position(1, 15)
    /\ ~insideOpenAction
    /\ hasVariable(lineBeforeCall)
    /\ inferContextFromSurrounding(textOfCall, lastCall.position) = "endpoint"
    /\ lastCall.result = UnknownContext


(***************************************************************************)
(* The context analyzer on documents longer than its window                *)
(***************************************************************************)

\* the lines a document begins with: one binding, two bindings, or a binding
\* that is broken over two lines
WindowHeads ==
    {<<"{{ range $x := .endpoints }}">>,
     <<"{{ range $x := .backends }}">>,
     <<"{{ range $x := .endpoints }}", "{{ range $y := .items }}">>,
     <<"{{ range $x :=", ".backends }}">>}

\* the last line of a document
WindowLastLines ==
    {"{{ $x.a", "{{ $backend.a", "{{ range $z := .endpoints }} {{ $z.a"}

\* the numbers of blank lines between the head and the last line
WindowGaps == {ScanWindowLines - 2, ScanWindowLines - 1, ScanWindowLines}

WindowTexts ==
    {join(head \o [i \in 1..gap |-> ""] \o <<last>>, "\n") :
        head \in WindowHeads, gap \in WindowGaps, last \in WindowLastLines}

InitWindow == InitFrom({PlainSchemaFile})

NextWindow ==
    \/ \E t \in WindowTexts : DidOpenTextDocument(RoutesUri, t)
    \/ \E p \in requestPositionsOf(documents[RoutesUri].text) : AnalyzeContext(RoutesUri, p)

SpecWindow == InitWindow /\ [][NextWindow]_vars

\* the text from column 0 of the line ScanWindowLines lines above a position,
\* or of line 0, up to the position, put together from the lines of the text
windowOf(text, position) ==
    LET first == IF position.line > ScanWindowLines
                 THEN position.line - ScanWindowLines ELSE 0
    IN  join(SubSeq(splitLines(text), first + 1, position.line)
             \o <<substring(lineAt(text, position.line), 0, position.character)>>, "\n")

\* the shape that the last of the bindings of a text gives: that of its source
\* expression, else that of the name it binds; unknown when there is no binding
shapeOfLastBinding(window) ==
    LET starts == {i \in 0..(Len(window) - 1) : matchRangeAt(window, i).ok}
        shapeOf(binding) ==
            IF shapeOfExpression(binding.rangeExpression) # "unknown"
            THEN shapeOfExpression(binding.rangeExpression)
            ELSE shapeOfName(binding.variableName)
    IN  IF starts = {} THEN "unknown" ELSE shapeOf(matchRangeAt(window, SetMax(starts)))

\* C20: where the resolver finds a variable in an open action, the type it
\* returns is the shape of the last binding that lies in the text from column 0
\* of the line ScanWindowLines lines above the position (or line 0) up to the
\* position; when that binding gives no shape, or the window holds no binding,
\* the type is the one the name of the variable suggests, whatever bindings
\* stand above the last one or above the window.
C20_BoundedScan ==
    (lastCall.op = "analyzeContext" /\ isSome(lastCall.result.variableName)) =>
        \E shape \in {shapeOfLastBinding(windowOf(textOfCall, lastCall.position))} :
            lastCall.result.type
                = IF shape # "unknown" THEN shape
                  ELSE shapeOfName(valueOf(lastCall.result.variableName))

\* $x has been resolved to unknown on the line ScanWindowLines + 1 of a document
\* whose line 0 binds $x over the endpoints
C20_Witness ==
    /\ lastCall.op = "analyzeContext"
    /\ lastCall.position.line = ScanWindowLines + 1
    /\ lineAt(textOfCall, 0) = "{{ range $x := .endpoints }}"
    /\ lineBeforeCall = "{{ $x."
    /\ lastCall.result.variableName = Some("x")
    /\ lastCall.result.type = "unknown"
    /\ inferContextFromWholeText(textOfCall, lastCall.position) = "endpoint"


(***************************************************************************)
(* The classification of the binding the analyzer selects                  *)
(***************************************************************************)

ClassifyLines ==
    {"{{ range $backend := .endpoints_backends }}",
     "{{ range $MyEndpoint := .frontend_backends }}",
     "{{ range $BackEndpoint := .items }}",
     "{{ range $i, $theBACKEND := .items }}",
     "{{ range $x := .items }} {{ $Backend.a"}

InitClassify == InitFrom({PlainSchemaFile})

NextClassify ==
    \/ \E l \in ClassifyLines : DidOpenTextDocument(RoutesUri, l)
    \/ \E t \in editsOf(RoutesUri, ClassifyLines) : DidChangeTextDocument(RoutesUri, t)
    \/ \E p \in requestPositionsOf(documents[RoutesUri].text) : AnalyzeContext(RoutesUri, p)

SpecClassify == InitClassify /\ [][NextClassify]_vars

\* the type the claim gives for a binding and the variable at the cursor
precedence(rangeExpression, boundName, cursorName) ==
    IF includes(rangeExpression, "endpoints") THEN "endpoint"
    ELSE IF includes(rangeExpression, "backends") THEN "backend"
    ELSE IF includes(toLowerCase(boundName), "endpoint") THEN "endpoint"
    ELSE IF includes(toLowerCase(boundName), "backend") THEN "backend"
    ELSE IF includes(toLowerCase(cursorName), "endpoint") THEN "endpoint"
    ELSE IF includes(toLowerCase(cursorName), "backend") THEN "backend"
    ELSE "unknown"

\* C21: where the resolver finds a variable under a binding, the type is
\* endpoint when the source expression of the binding contains endpoints, else
\* backend when it contains backends, else endpoint or backend as the name the
\* binding binds contains endpoint or backend in any case, endpoint first, and
\* only else what the name of the variable at the cursor contains.
C21_ClassificationPrecedence ==
    (lastCall.op = "analyzeContext" /\ isSome(lastCall.result.variableName)) =>
        \E binding \in {nearestBinding} :
            binding.ok =>
                lastCall.result.type
                    = precedence(binding.rangeExpression, binding.variableName,
                                 valueOf(lastCall.result.variableName))

\* $x has been resolved to endpoint under a binding whose expression names
\* nothing and whose variable $BackEndpoint contains both words
C21_Witness ==
    /\ lastCall.op = "analyzeContext"
    /\ lastCall.result.variableName = Some("x")
    /\ nearestBinding.ok
    /\ nearestBinding.variableName = "BackEndpoint"
    /\ ~includes(nearestBinding.rangeExpression, "endpoints")
    /\ ~includes(nearestBinding.rangeExpression, "backends")
    /\ lastCall.result.type = "endpoint"


(***************************************************************************)
(* The suggestions for a field name                                        *)
(***************************************************************************)

SuggestNames ==
    {"pxrt", "methdo", "UR", "Port", "hosts", "zzzzzzzz", "url", "sorted", "x", "hxst",
     "ports", "urx", "", "ost", "metho", "endpoint", "backends", "Uri"}

InitSuggest == InitFrom({SuggestSchemaFile, ReorderedSuggestSchemaFile})

NextSuggest == \E c \in CtxTypes, n \in SuggestNames : FindSimilarFields(c, n)

SpecSuggest == InitSuggest /\ [][NextSuggest]_vars

\* the distance of a field name to the name of the last call, whatever the case
distanceOfCall(name) == levenshteinDistance(toLowerCase(lastCall.name), toLowerCase(name))

\* the positions of getFields whose field is near enough to be suggested
nearOfCall ==
    {i \in 1..Len(getFields(lastCall.context)) :
        distanceOfCall(getFields(lastCall.context)[i].name) <= MaxSuggestDistance}

\* the place of a near field among the near fields by distance, fields at one
\* distance in the order of getFields
placeOfCall(i) ==
    1 + Cardinality({j \in nearOfCall :
            \/ distanceOfCall(getFields(lastCall.context)[j].name)
                  < distanceOfCall(getFields(lastCall.context)[i].name)
            \/ /\ distanceOfCall(getFields(lastCall.context)[j].name)
                     = distanceOfCall(getFields(lastCall.context)[i].name)
               /\ j < i})

\* the suggestions are names of fields of the shape, at most MaxSuggestions, as
\* many as there are near fields up to that number, and no field that is left
\* out is nearer than one that is suggested
nearestSuggested ==
    /\ Len(lastCall.result)
          = (IF Cardinality(nearOfCall) < MaxSuggestions THEN Cardinality(nearOfCall)
             ELSE MaxSuggestions)
    /\ \A k \in 1..Len(lastCall.result) :
          /\ lastCall.result[k] \in namesOf(getFields(lastCall.context))
          /\ distanceOfCall(lastCall.result[k]) <= MaxSuggestDistance
          /\ \A i \in nearOfCall :
                distanceOfCall(getFields(lastCall.context)[i].name)
                    < distanceOfCall(lastCall.result[k])
                => \E m \in 1..Len(lastCall.result) :
                       lastCall.result[m] = getFields(lastCall.context)[i].name

OccurrenceLines ==
    {"{{ range $e := .endpoints }}",
     "{{ if $e.methdo }}",
     "{{ $e.methdo }}",
     "{{ $e.url }}"}

InitOccurrence == InitFrom({PlainSchemaFile})

NextOccurrence ==
    \/ \E u \in URIs, l \in OccurrenceLines : DidOpenTextDocument(u, l)
    \/ \E u \in URIs : \E t \in editsOf(u, OccurrenceLines) : DidChangeTextDocument(u, t)

SpecOccurrence == InitOccurrence /\ [][NextOccurrence]_vars

\* the offset after the $identifier.identifier that begins at offset i of a
\* text, -1 when none begins there
referenceEnd(text, i) ==
    LET field(nameEnd, fieldEnd) ==
            IF /\ charAt(text, i) = "$"
               /\ nameEnd > i + 1
               /\ charAt(text, nameEnd) = "."
               /\ fieldEnd > nameEnd + 1
            THEN fieldEnd ELSE -1
        name(nameEnd) == field(nameEnd, skipWord(text, nameEnd + 1))
    IN  name(skipWord(text, i + 1))

\* the diagnostic is the warning of the claim for the reference from offset i
\* to offset end in a shape
warnsAbout(text, diagnostic, i, end, shape) ==
    /\ diagnostic.code = "unknown-field"
    /\ diagnostic.severity = "Warning"
    /\ diagnostic.range = Range(positionAt(text, i), positionAt(text, end))
    /\ includes(diagnostic.message,
                "'" \o substringFrom(substring(text, i, end),
                                     indexOf(substring(text, i, end), ".") + 1) \o "'")
    /\ includes(diagnostic.message, shape)

\* C23 as stated: for every $identifier.identifier of a validated document whose
\* context, resolved at the occurrence, is a known shape that does not have the
\* field, the list of the document has exactly one warning that spans the
\* occurrence and names the field and the shape.
C23_EveryOccurrenceExamined ==
    \A u \in URIs : validated(u) =>
        \A i \in 0..(Len(documents[u].text) - 1) :
            \E end \in {referenceEnd(documents[u].text, i)} :
                end # -1 =>
                    \E context \in {analyzeContext(documents[u].text,
                                                   positionAt(documents[u].text, end))} :
                        (/\ context.type # "unknown"
                         /\ ~isValidField(context.type, valueOf(context.fieldPath)[1]))
                        => Cardinality({k \in 1..Len(diagnosticsOf(u)) :
                                           warnsAbout(documents[u].text, diagnosticsOf(u)[k],
                                                      i, end, context.type)}) = 1


(***************************************************************************)
(* The validator on lines that mix actions and JSON                        *)
(***************************************************************************)

NeutralLines ==
    {"{{ if .x }}\"a\": 1{{ end }}",
     "\"b\": 2",
     "{{ .y }}",
     "\"c\": {{ .v }}"}

InitNeutral == InitFrom({PlainSchemaFile})

NextNeutral ==
    \/ \E u \in URIs, l \in NeutralLines : DidOpenTextDocument(u, l)
    \/ \E u \in URIs : \E t \in editsOf(u, NeutralLines) : DidChangeTextDocument(u, t)

SpecNeutral == InitNeutral /\ [][NextNeutral]_vars

\* the line is one action between blanks: it opens with {{ and its first }} is
\* its end
soleAction(line) ==
    \E t \in {trim(line)} :
        /\ startsWith(t, "{{")
        /\ Len(t) >= 4
        /\ indexOfFrom(t, "}}", 2) = Len(t) - 2

\* the neutralized line of the claim, trimmed
statedNeutral(line) ==
    IF soleAction(line) THEN (IF includes(line, ",") THEN "," ELSE "")
    ELSE trim(replaceActions(line))

\* line l (1-based) of the lines, neutralized as the claim says, is a property
\* line that expects a comma
statedExpectsComma(lines, l) ==
    LET later == {j \in (l + 1)..Len(lines) : lines[j] # ""}
    IN  /\ hasQuotedKey(lines[l])
        /\ ~(endsWith(lines[l], "{") \/ endsWith(lines[l], "[") \/ endsWith(lines[l], ","))
        /\ later # {}
        /\ startsWith(lines[SetMin(later)], "\"")

\* C24 as stated: the pass empties (or turns into a comma) only the lines that
\* are one action, replaces the actions of every other line by a placeholder
\* and keeps the rest, and checks the lines so neutralized: a property line
\* between two actions that a property line follows has a missing-comma
\* diagnostic.
C24_NeutralizationAsStated ==
    \A u \in URIs : (validated(u) /\ endsWith(documents[u].fileName, ".json.tmpl")) =>
        \E raw \in {splitLines(documents[u].text)} :
            /\ \A l \in 1..Len(raw) : trim(cleanTemplateLine(raw[l])) = statedNeutral(raw[l])
            /\ \A l \in 1..Len(raw) :
                  Cardinality(commaDiagnosticsOn(u, l - 1))
                      = (IF statedExpectsComma([j \in 1..Len(raw) |-> statedNeutral(raw[j])], l)
                         THEN 1 ELSE 0)


(***************************************************************************)
(* C25: the tables of the store under every operation                      *)
(***************************************************************************)

\* a binding, a reference to a field the shape lacks and an enum property
ReadOnlyLines ==
    {"{{ range $e := .endpoints }}",
     "{{ $e.methdo }}",
     "\"method\": \"GETT\""}

ReadOnlyNames == {"url", "endpoint_url", "methdo"}

InitReadOnly == InitFrom({PlainSchemaFile})

\* every operation of the store, the analyzer, the validator and the providers
NextReadOnly ==
    \/ \E l \in ReadOnlyLines : DidOpenTextDocument(RoutesUri, l)
    \/ \E t \in editsOf(RoutesUri, ReadOnlyLines) : DidChangeTextDocument(RoutesUri, t)
    \/ \E p \in requestPositionsOf(documents[RoutesUri].text) : AnalyzeContext(RoutesUri, p)
    \/ \E p \in requestPositionsOf(documents[RoutesUri].text) :
          ProvideCompletionItems(RoutesUri, p)
    \/ \E p \in requestPositionsOf(documents[RoutesUri].text) : ProvideHover(RoutesUri, p)
    \/ \E c \in CtxTypes : GetFields(c)
    \/ \E c \in CtxTypes, n \in ReadOnlyNames : GetFieldInfo(c, n)
    \/ \E c \in CtxTypes, n \in ReadOnlyNames : IsValidField(c, n)
    \/ \E c \in CtxTypes, n \in ReadOnlyNames : GetEnumValues(c, n)

SpecReadOnly == InitReadOnly /\ [][NextReadOnly]_vars

\* C25: no step of a resolve, validate, complete, hover or query operation
\* changes the root, endpoint and backend tables or the alias table; they stay
\* what the constructor built.
C25_SchemaStateReadOnly ==
    [][/\ rootFields' = rootFields
       /\ endpointFields' = endpointFields
       /\ backendFields' = backendFields
       /\ fieldMappings' = fieldMappings]_vars

\* getFields("endpoint") has answered with the aliases appended to its copy
\* while the endpoint table still holds the canonical names only
C25_Witness ==
    /\ lastCall.op = "getFields"
    /\ lastCall.context = "endpoint"
    /\ Len(endpointFields) > 0
    /\ Len(lastCall.result) > Len(endpointFields)
    /\ endpointFields = loadSchema(schemaFile).endpointFields


(***************************************************************************)
(* C26: the two schema passes of updateDiagnostics                         *)
(***************************************************************************)

\* the offsets at which the unknown-field pass resolves the context: the $ of
\* every match of fieldPattern
referenceOffsets(text) ==
    LET each(matches) ==
            {matches[i].index
                 + indexOf(matches[i].whole,
                           "$" \o matches[i].variableName \o "." \o matches[i].fieldName) :
             i \in 1..Len(matches)}
    IN  each(execFieldPattern(text, 0))

InitAlias == InitFrom({PlainSchemaFile, CrossSchemaFile, CollidingSchemaFile,
                       UnresolvedSchemaFile})

SpecAlias == InitAlias /\ [][NextStore]_vars

aliasNames == {fieldMappings[k].value : k \in 1..Len(fieldMappings)}

\* the canonical name the alias table maps to an alias
canonicalOf(alias) ==
    fieldMappings[CHOOSE k \in 1..Len(fieldMappings) : fieldMappings[k].value = alias].key

inTable(context, name) == isSome(mapGet(tableOf(context), name))

\* the answers about the two named aliases and about the root table
aliasAnswers ==
    /\ lastCall.op = "isValidField" /\ lastCall.context = "endpoint"
       /\ lastCall.name = "backend_method" /\ inTable("endpoint", "method")
       => lastCall.result = TRUE
    /\ lastCall.op = "isValidField" /\ lastCall.context = "backend"
       /\ lastCall.name = "endpoint_url" /\ inTable("backend", "url")
       => lastCall.result = TRUE
    /\ lastCall.op = "getFieldInfo" /\ lastCall.context = "unknown"
       /\ lastCall.name \in aliasNames /\ inTable("unknown", canonicalOf(lastCall.name))
       => isSome(lastCall.result)
    /\ lastCall.op = "getFields" /\ lastCall.context = "unknown"
       => namesOf(lastCall.result) = namesOf(rootFields)

\* C27 as stated: isValidField(shape, alias) is true exactly when the canonical
\* name of the alias is in the table of the shape, whatever the shape.
C27_AliasNotTiedToShapeAsStated ==
    /\ lastCall.op = "isValidField" /\ lastCall.name \in aliasNames
       => lastCall.result = inTable(lastCall.context, canonicalOf(lastCall.name))
    /\ aliasAnswers

\* C27: isValidField(shape, alias) is true exactly when the canonical name of
\* the alias, or a property named like the alias itself, is in the table of the
\* shape, whatever the shape: backend_method is valid for an endpoint that has
\* method, endpoint_url for a backend that has url, and getFieldInfo accepts
\* the alias of a root property although getRootFields lists no alias.
C27_AliasNotTiedToShape ==
    /\ lastCall.op = "isValidField" /\ lastCall.name \in aliasNames
       => lastCall.result = (\/ inTable(lastCall.context, canonicalOf(lastCall.name))
                             \/ inTable(lastCall.context, lastCall.name))
    /\ aliasAnswers

\* isValidField("backend", "endpoint_url") answered true for a backend table
\* that has url and no endpoint_url
C27_Witness ==
    /\ lastCall.op = "isValidField"
    /\ lastCall.context = "backend"
    /\ lastCall.name = "endpoint_url"
    /\ lastCall.result = TRUE
    /\ inTable("backend", "url")
    /\ ~inTable("backend", "endpoint_url")


(***************************************************************************)
(* C28: bindings that were closed before the position                      *)
(***************************************************************************)

\* two bindings, a binding closed on its own line, the end of a range and an
\* access to a variable whose name tells nothing
ClosedLines ==
    {"{{ range $e := .endpoints }}",
     "{{ range $b := .backends }} {{ end }}",
     "{{ end }}",
     "{{ $x.a"}

InitClosed == InitFrom({PlainSchemaFile})

NextClosed ==
    \/ \E l \in ClosedLines : DidOpenTextDocument(RoutesUri, l)
    \/ \E t \in editsOf(RoutesUri, ClosedLines) : DidChangeTextDocument(RoutesUri, t)
    \/ \E p \in requestPositionsOf(documents[RoutesUri].text) : AnalyzeContext(RoutesUri, p)

SpecClosed == InitClosed /\ [][NextClosed]_vars

\* the shape of the last line of lines that opens a range, whether or not an
\* {{ end }} follows it; unknown when no line does
shapeOfLastRangeLine(lines) ==
    LET opening == {l \in 1..Len(lines) : includes(lines[l], "{{ range")}
        shape(line) == IF includes(line, ".endpoints") THEN "endpoint" ELSE "backend"
    IN  IF opening = {} THEN "unknown" ELSE shape(lines[SetMax(opening)])

\* C28: the type answered for an access to a variable is the shape of the last
\* binding that textually precedes the position, also when an {{ end }} lies
\* between that binding and the position and when the binding is an inner range
\* that has ended inside an outer one.
C28_EndIgnored ==
    lastCall.op = "analyzeContext" /\ isSome(lastCall.result.variableName)
    => lastCall.result.type =
           shapeOfLastRangeLine(SubSeq(splitLines(documents[lastCall.uri].text), 1,
                                       lastCall.position.line))

\* an access after an inner range over the backends that has ended inside a
\* range over the endpoints is answered with backend
C28_Witness ==
    /\ lastCall.op = "analyzeContext"
    /\ documents[RoutesUri].text =
           "{{ range $e := .endpoints }}" \o "\n"
           \o "{{ range $b := .backends }} {{ end }}" \o "\n" \o "{{ $x.a"
    /\ lastCall.position = Position(2, 7)
    /\ lastCall.result.variableName = Some("x")
    /\ lastCall.result.type = "backend"


(***************************************************************************)
(* C29: the variable of an action that holds several                       *)
(***************************************************************************)

\* actions with two variables and an action with one long name; no binding
FirstVariableLines ==
    {"{{ $x.a $endpoint.b",
     "{{ $backend.a $endpoint.b",
     "{{ $endpointer.u"}

InitFirstVariable == InitFrom({PlainSchemaFile})

\* every position of the last line, also those inside a word
everyPositionOf(text) ==
    {positionAt(text, o) : o \in (lastIndexOf(text, "\n") + 1)..Len(text)}

NextFirstVariable ==
    \/ \E l \in FirstVariableLines : DidOpenTextDocument(RoutesUri, l)
    \/ \E t \in editsOf(RoutesUri, FirstVariableLines) : DidChangeTextDocument(RoutesUri, t)
    \/ \E p \in everyPositionOf(documents[RoutesUri].text) : AnalyzeContext(RoutesUri, p)

SpecFirstVariable == InitFirstVariable /\ [][NextFirstVariable]_vars

\* the offsets, between the last {{ of a line and the cursor, of a $ that an
\* identifier character follows before the cursor
dollarsBefore(line, cursor) ==
    {i \in (lastIndexOf(substring(line, 0, cursor), "{{") + 2)..(cursor - 2) :
        charAt(line, i) = "$" /\ isWordChar(charAt(line, i + 1))}

\* the identifier after the $ at offset i, cut at the cursor
identifierCutAt(line, i, cursor) ==
    substring(line, i + 1,
              SetMin({j \in (i + 1)..cursor : j = cursor \/ ~isWordChar(charAt(line, j))}))

\* C29: with no binding above, the variable name answered is the first
\* $identifier between the last {{ of the line and the cursor, cut at the
\* cursor, and the type answered is the one that name suggests.
C29_FirstVariableDecides ==
    lastCall.op = "analyzeContext" =>
        LET line == lineAt(documents[lastCall.uri].text, lastCall.position.line)
            cursor == lastCall.position.character
            dollars == dollarsBefore(line, cursor)
            named(name) ==
                /\ lastCall.result.variableName = Some(name)
                /\ lastCall.result.type = typeOfVariableName(name)
        IN  IF dollars = {} THEN lastCall.result.variableName = None
            ELSE named(identifierCutAt(line, SetMin(dollars), cursor))

\* at the end of {{ $x.a $endpoint.b the answer names x and the type is unknown
C29_Witness ==
    /\ lastCall.op = "analyzeContext"
    /\ documents[RoutesUri].text = "{{ $x.a $endpoint.b"
    /\ lastCall.position = Position(0, 19)
    /\ lastCall.result.variableName = Some("x")
    /\ lastCall.result.type = "unknown"


(***************************************************************************)
(* C30: the entries that updateDiagnostics leaves alone                    *)
(***************************************************************************)

\* two property lines: the first lacks its comma when the second follows it
FrameLines == {"\"a\": 1", "\"b\": 2"}

InitFrame == InitFrom({PlainSchemaFile})

NextFrame ==
    \/ \E u \in URIs, l \in FrameLines : DidOpenTextDocument(u, l)
    \/ \E u \in URIs : \E t \in editsOf(u, FrameLines) : DidChangeTextDocument(u, t)
    \/ \E u \in URIs : DidCloseTextDocument(u)

SpecFrame == InitFrame /\ [][NextFrame]_vars

\* C30: a step for a document whose language is not gotmpl leaves the whole
\* collection as it was, a step for a gotmpl document changes at most the entry
\* of its URI, and no step, the close of a document included, removes an entry.
C30_UpdateFrame ==
    [][/\ languageOf(lastCall'.uri) # "gotmpl" => diagnosticCollection' = diagnosticCollection
       /\ \A u \in URIs \ {lastCall'.uri} : diagnosticCollection'[u] = diagnosticCollection[u]
       /\ \A u \in URIs : isSome(diagnosticCollection[u]) => isSome(diagnosticCollection'[u])
       /\ lastCall'.op = "didClose" => diagnosticCollection' = diagnosticCollection]_vars

\* a change of routes.tmpl was validated while the collection held the
\* missing-comma diagnostic of the closed gateway.json.tmpl
C30_Witness ==
    /\ lastCall.op = "didChange"
    /\ lastCall.uri = RoutesUri
    /\ isSome(diagnosticCollection[RoutesUri])
    /\ ~documents[GatewayUri].isOpen
    /\ Len(diagnosticsOf(GatewayUri)) > 0
    /\ ~isSome(diagnosticCollection[NotesUri])

====
